---- MODULE Spec2Model ----
(***************************************************************************)
(* State-machine model of dji_video_control.py: the DJIVideoController     *)
(* object, the thread running main()/start()/disconnect_agora(), the       *)
(* transport callback context (ConnObserver), the broadcaster thread       *)
(* (_agora_send_loop) and the HTTP handler thread (ControlAPIHandler).     *)
(* A step of the model is one access to the shared controller object or    *)
(* one call to an external collaborator.                                   *)
(***************************************************************************)
EXTENDS Integers, Sequences, FiniteSets, TLC

\* ---------------------------------------------------------------- bounds
\* messages handed to the transport before the model stops sending
MaxSent == 2
\* polls of the readiness gate (range(100) in the source, scaled down)
ReadyPolls == 2
\* polls of the peer gate (range(50) in the source, scaled down)
PeerPolls == 1
\* parts of the longest grant string handed to _parse_stream_creds
MaxParts == 4

\* ------------------------------------------------------------- constants
\* agora_current_mode = None ("not sending")
None == 0


\* AGORA_MODES with the codes of forward and u_turn exchanged
AGORA_MODES_swapped(direction) ==
    CASE direction = "forward"      -> 16
      [] direction = "rotate_left"  -> 18
      [] direction = "rotate_right" -> 19
      [] direction = "u_turn"       -> 17
      [] OTHER                      -> None

\* DJIVideoController.AGORA_MODES.get(direction); None when absent
AGORA_MODES(direction) ==
    CASE direction = "forward"      -> 17
      [] direction = "rotate_left"  -> 18
      [] direction = "rotate_right" -> 19
      [] direction = "u_turn"       -> 16
      [] OTHER                      -> None


\* dir_map.get(dir_in, dir_in): a token the map does not hold is passed on
dir_map_passes(dir_in) ==
    CASE dir_in = "up"           -> "forward"
      [] dir_in = "down"         -> "u_turn"
      [] dir_in = "left"         -> "rotate_left"
      [] dir_in = "right"        -> "rotate_right"
      [] dir_in = "none"         -> "stop"
      [] OTHER                   -> dir_in

\* dir_map.get(dir_in, 'stop') of ControlAPIHandler.do_POST
dir_map(dir_in) ==
    CASE dir_in = "up"           -> "forward"
      [] dir_in = "down"         -> "u_turn"
      [] dir_in = "left"         -> "rotate_left"
      [] dir_in = "right"        -> "rotate_right"
      [] dir_in = "none"         -> "stop"
      [] dir_in = "forward"      -> "forward"
      [] dir_in = "rotate_left"  -> "rotate_left"
      [] dir_in = "rotate_right" -> "rotate_right"
      [] dir_in = "u_turn"       -> "u_turn"
      [] dir_in = "stop"         -> "stop"
      [] OTHER                   -> "stop"

\* What api_post returns: "ok" is a payload with result.code = 0, "fail" a
\* payload with a non-zero result.code (and no "error" key), "exc" the
\* {"error": str(e)} value built when the request raised.
ApiResults == {"ok", "fail", "exc"}

\* What api_post can return: the payloads of ApiResults, and "odd", a JSON
\* value of another shape (a list, null, or an object whose "result" is not an
\* object), on which `result.get("result", {}).get("code")` raises
ApiPayloads == ApiResults \cup {"odd"}

\* result.get("result", {}).get("code") == 0
code_is_0(result) == result = "ok"

\* result.get("error") is truthy
has_error(result) == result = "exc"

\* enter_mode left at the default of connect_agora's signature
start_enter_mode_default == TRUE

\* enter_mode argument start() passes to connect_agora
start_enter_mode == FALSE

\* ------------------------------------------------- _parse_stream_creds
\* Strings are sequences of one-character strings.  The keys the resolver
\* looks up:
k_app_id == <<"a", "p", "p", "_", "i", "d">>
k_channel == <<"c", "h", "a", "n", "n", "e", "l">>
k_token == <<"t", "o", "k", "e", "n">>
k_uid == <<"u", "i", "d">>

\* Position of the first c in s, 0 when s holds none
IndexOf(s, c) ==
    IF \E i \in 1..Len(s) : s[i] = c
    THEN CHOOSE i \in 1..Len(s) : s[i] = c /\ \A k \in 1..(i - 1) : s[k] # c
    ELSE 0

\* str.split(sep): the pieces between the separators, at least one piece
RECURSIVE split(_, _)
split(s, sep) ==
    LET i == IndexOf(s, sep)
    IN  IF i = 0 THEN <<s>>
        ELSE <<SubSeq(s, 1, i - 1)>> \o split(SubSeq(s, i + 1, Len(s)), sep)

\* key, value = part.split("=", 1), for a part that holds an "="
split_once(part) ==
    LET i == IndexOf(part, "=")
    IN  [key |-> SubSeq(part, 1, i - 1), value |-> SubSeq(part, i + 1, Len(part))]

\* The characters with codes 32..126, in order (the grave accent by name)
Printable ==
    <<" ", "!", "\"", "#", "$", "%", "&", "'", "(", ")", "*", "+",
      ",", "-", ".", "/", "0", "1", "2", "3", "4", "5", "6", "7",
      "8", "9", ":", ";", "<", "=", ">", "?", "@", "A", "B", "C",
      "D", "E", "F", "G", "H", "I", "J", "K", "L", "M", "N", "O",
      "P", "Q", "R", "S", "T", "U", "V", "W", "X", "Y", "Z", "[",
      "\\", "]", "^", "_", "<grave>", "a", "b", "c", "d", "e", "f", "g",
      "h", "i", "j", "k", "l", "m", "n", "o", "p", "q", "r", "s",
      "t", "u", "v", "w", "x", "y", "z", "{", "|", "}", "~">>

\* Value of a hexadecimal digit
HexValue(c) ==
    CASE c = "0" -> 0 [] c = "1" -> 1 [] c = "2" -> 2 [] c = "3" -> 3 [] c = "4" -> 4
      [] c = "5" -> 5 [] c = "6" -> 6 [] c = "7" -> 7 [] c = "8" -> 8 [] c = "9" -> 9
      [] c \in {"A", "a"} -> 10 [] c \in {"B", "b"} -> 11 [] c \in {"C", "c"} -> 12
      [] c \in {"D", "d"} -> 13 [] c \in {"E", "e"} -> 14 [] c \in {"F", "f"} -> 15
      [] OTHER -> -1

\* The character a %XX escape stands for; the grants of the model hold
\* escapes of printable ASCII characters only
chr(code) == IF code \in 32..126 THEN Printable[code - 31] ELSE "<other>"

\* unquote leaving the escapes as they are
unquote_kept(value) == value

\* urllib.parse.unquote(value): every % followed by two hexadecimal digits
\* is replaced by the character with that code, anything else is kept
RECURSIVE unquote(_)
unquote(value) ==
    IF value = <<>> THEN <<>>
    ELSE IF /\ value[1] = "%"
            /\ Len(value) >= 3
            /\ HexValue(value[2]) >= 0
            /\ HexValue(value[3]) >= 0
         THEN <<chr(16 * HexValue(value[2]) + HexValue(value[3]))>>
                 \o unquote(SubSeq(value, 4, Len(value)))
         ELSE <<value[1]>> \o unquote(Tail(value))

\* The loop of _parse_stream_creds followed by params.get(key, default): the
\* unquoted value of the last part that holds an "=" and has this key, the
\* default when there is none
params_get(url_str, key, default) ==
    LET parts == split(url_str, "&")
        hits == {i \in 1..Len(parts) :
                    /\ IndexOf(parts[i], "=") > 0
                    /\ split_once(parts[i]).key = key}
    IN  IF hits = {} THEN default
        ELSE LET last == CHOOSE i \in hits : \A k \in hits : k <= i
             IN  unquote(split_once(parts[last]).value)

\* Decimal digits
IsDigit(c) == HexValue(c) \in 0..9

\* Value of a non-empty sequence of decimal digits
RECURSIVE digits_value(_)
digits_value(s) ==
    IF Len(s) = 1 THEN HexValue(s[1])
    ELSE 10 * digits_value(SubSeq(s, 1, Len(s) - 1)) + HexValue(s[Len(s)])

\* int(text) for a str: an optional sign and decimal digits give the number,
\* anything else (the empty string too) raises ValueError.  The grants of
\* the model hold no blanks and no underscores inside numbers.
int_raises(text) ==
    LET body == IF text # <<>> /\ text[1] \in {"+", "-"} THEN Tail(text) ELSE text
    IN  body = <<>> \/ \E i \in 1..Len(body) : ~IsDigit(body[i])

int(text) ==
    LET negative == text[1] = "-"
        body == IF text[1] \in {"+", "-"} THEN Tail(text) ELSE text
    IN  IF negative THEN 0 - digits_value(body) ELSE digits_value(body)

\* data.get("publish_uid", 50000)
default_publish_uid == 50000

\* creds before _parse_stream_creds has run
unparsed == [parsed |-> FALSE]

\* _parse_stream_creds(data) left by the ValueError of int()
raised_ValueError == [parsed |-> TRUE, raised |-> TRUE]

\* DJIVideoController._parse_stream_creds(data)
parse_stream_creds(d) ==
    LET url_str == IF d.has_url THEN d.url ELSE <<>>
        uid_text == params_get(url_str, k_uid, <<"0">>)
    IN  IF int_raises(uid_text) THEN raised_ValueError
        ELSE [parsed |-> TRUE, raised |-> FALSE,
              app_id |-> params_get(url_str, k_app_id, <<>>),
              channel |-> params_get(url_str, k_channel, <<>>),
              token |-> params_get(url_str, k_token, <<>>),
              uid |-> int(uid_text),
              publish_uid |-> IF d.has_publish_uid THEN d.publish_uid
                              ELSE default_publish_uid]

\* A key=value part of a grant: its key, its value as written, the value it
\* stands for, whether that value is a decimal number and which, and its text
kv(key, raw, meaning, numeric, number) ==
    [key |-> key, raw |-> raw, meaning |-> meaning, numeric |-> numeric,
     number |-> number, text |-> key \o <<"=">> \o raw]

\* The parts the grants of the model are made of: the four of the
\* specification's example, a uid that is not a number, a channel written
\* with an escape, and a part without "="
Parts ==
    { kv(k_app_id, <<"X">>, <<"X">>, FALSE, 0),
      kv(k_channel, <<"Y">>, <<"Y">>, FALSE, 0),
      kv(k_token, <<"A", "%", "3", "D", "B">>, <<"A", "=", "B">>, FALSE, 0),
      kv(k_uid, <<"4", "2">>, <<"4", "2">>, TRUE, 42),
      kv(k_uid, <<"4", "x">>, <<"4", "x">>, FALSE, 0),
      kv(k_channel, <<"Y", "%", "2", "6", "Z">>, <<"Y", "&", "Z">>, FALSE, 0),
      [key |-> <<>>, raw |-> <<>>, meaning |-> <<>>, numeric |-> FALSE,
       number |-> 0, text |-> k_token] }

\* "&".join of the parts' texts
RECURSIVE join(_)
join(ps) ==
    IF ps = <<>> THEN <<>>
    ELSE IF Len(ps) = 1 THEN ps[1].text
    ELSE ps[1].text \o <<"&">> \o join(Tail(ps))

\* publish_uid values of the issuing response
PublishUids == {50000, 50001}

\* The `data` object of a response whose "url" is the grant made of these
\* parts, with or without a publish_uid
response(ps, has_publish_uid, publish_uid) ==
    [parts |-> ps, has_url |-> TRUE, url |-> join(ps),
     has_publish_uid |-> has_publish_uid, publish_uid |-> publish_uid]

\* `data` of a controller that has not asked for credentials
no_data ==
    [parts |-> <<>>, has_url |-> FALSE, url |-> <<>>,
     has_publish_uid |-> FALSE, publish_uid |-> 0]

VARIABLES
    \* fields of the DJIVideoController object
    agora_service,        \* "None" | "obj"
    agora_connection,     \* "None" | "obj"
    agora_connected,
    agora_stream_ready,
    agora_robot_joined,
    agora_seq_id,
    agora_send_thread,    \* FALSE = None, TRUE = a Thread object
    agora_running,
    agora_current_mode,
    http_server,          \* "None" | "serving" | "shutdown"
    \* the transport connection object (RTCConnection)
    link,                 \* "new" | "joining" | "up" | "down" | "reconnecting" | "lost" | "failed" | "disconnected" | "released"
    n_sent,               \* number of messages handed to send_stream_message
    last_msg,             \* the most recent of them
    \* the main thread
    main_pc,
    calls,                \* external calls made by the main thread, in order
    result,               \* return value of start() / result1 / result2
    agora_ok,             \* "unset" | "True" | "False"
    poll,                 \* loop counter of the gate being polled
    gate_met,             \* the readiness loop left through its break
    \* the transport callback context
    cb_pc,
    \* the broadcaster thread
    bc_pc,
    bc_mode,              \* local `mode` of _agora_send_loop
    bc_seq,               \* value of agora_seq_id read by the thread
    \* the HTTP handler thread
    br_pc,
    br_direction,         \* local `direction` of do_POST
    br_seq,
    br_resp,              \* status code of the last response, 0 = none yet
    br_fx,                \* what the request in progress has done so far
    br_calls,             \* device-management calls of the request in progress, with their results
    br_payload,           \* payload of the response to /enter-control, /exit-control, /go-home
    \* a call of _parse_stream_creds
    data,                 \* its argument
    creds                 \* what it returned

ctrl == <<agora_service, agora_connection, agora_connected, agora_stream_ready,
          agora_robot_joined, agora_seq_id, agora_send_thread, agora_running,
          agora_current_mode, http_server>>
env == <<link, n_sent, last_msg>>
mainv == <<main_pc, calls, result, agora_ok, poll, gate_met>>
cbv == <<cb_pc>>
bcv == <<bc_pc, bc_mode, bc_seq>>
apiv == <<br_calls, br_payload>>
brv == <<br_pc, br_direction, br_seq, br_resp, br_fx, apiv>>
resv == <<data, creds>>
vars == <<ctrl, env, mainv, cbv, bcv, brv, resv>>

\* br_payload while no response was written
no_payload == [none |-> TRUE]

\* last_msg before anything was sent
no_message == [seq_id |-> -1, mode |-> None, version |-> 2, x |-> 1, y |-> 0, via |-> "none"]

\* DJIVideoController.__init__ and the first line of main()
InitController ==
    /\ agora_service = "None"
    /\ agora_connection = "None"
    /\ agora_connected = FALSE
    /\ agora_stream_ready = FALSE
    /\ agora_robot_joined = FALSE
    /\ agora_seq_id = 0
    /\ agora_send_thread = FALSE
    /\ agora_running = FALSE
    /\ agora_current_mode = None
    /\ http_server = "None"
    /\ link = "new"
    /\ n_sent = 0
    /\ last_msg = no_message
    /\ main_pc = "start_control_server"
    /\ calls = <<>>
    /\ result = "unset"
    /\ agora_ok = "unset"
    /\ poll = 0
    /\ gate_met = FALSE
    /\ cb_pc = "idle"
    /\ bc_pc = "unstarted"
    /\ bc_mode = None
    /\ bc_seq = 0
    /\ br_pc = "idle"
    /\ br_direction = "stop"
    /\ br_seq = 0
    /\ br_resp = 0
    /\ br_fx = {}
    /\ br_calls = <<>>
    /\ br_payload = no_payload

\* The program: no call of _parse_stream_creds is followed
Init ==
    /\ InitController
    /\ data = no_data
    /\ creds = unparsed

\* _parse_stream_creds on its own: `data` is an object without "url", or a
\* response whose grant has up to MaxParts parts
InitResolver ==
    /\ InitController
    /\ \/ data = no_data
       \/ \E n \in 0..MaxParts : \E ps \in [1..n -> Parts] :
             \/ data = response(ps, FALSE, 0)
             \/ \E pu \in PublishUids : data = response(ps, TRUE, pu)
    /\ creds = unparsed

\* ------------------------------------------------------------ main thread
\* The calls enter_remote_control_mode makes for the three endpoints' results,
\* in order: it stops at the first result whose code is 0.
RECURSIVE enter_calls(_, _)
enter_calls(endpoints, results) ==
    IF endpoints = <<>> THEN <<>>
    ELSE IF code_is_0(Head(results)) THEN <<Head(endpoints)>>
    ELSE <<Head(endpoints)>> \o enter_calls(Tail(endpoints), Tail(results))

\* enter_endpoints without the rc/enter fallback
enter_endpoints_two == <<"enterModeB", "enterMode">>

\* The endpoints list of enter_remote_control_mode
enter_endpoints == <<"enterModeB", "enterMode", "rc_enter">>

\* teardown_order with the stream-stop request ahead of the control server's
\* shutdown
teardown_order_stream_first ==
    <<"da_mode", "da_running", "da_join", "da_exit", "da_disconnect", "da_release",
      "da_conn_none", "da_service", "da_connected", "da_ready",
      "stop_live_stream", "stop_control_server", "exit">>

\* teardown_order with the exit-control request moved behind the release of
\* the connection
teardown_order_exit_late ==
    <<"da_mode", "da_running", "da_join", "da_disconnect", "da_release",
      "da_conn_none", "da_exit", "da_service", "da_connected", "da_ready",
      "stop_control_server", "stop_live_stream", "exit">>

\* The statements of main()'s finally block in program order: those of
\* disconnect_agora (da_*), then stop_control_server, then stop_live_stream
teardown_order ==
    <<"da_mode", "da_running", "da_join", "da_exit", "da_disconnect", "da_release",
      "da_conn_none", "da_service", "da_connected", "da_ready",
      "stop_control_server", "stop_live_stream", "exit">>

\* The statement that follows statement pc in the finally block
after(pc) ==
    LET i == CHOOSE k \in 1..Len(teardown_order) : teardown_order[k] = pc
    IN  teardown_order[i + 1]

\* start(): self.start_control_server(port=8765); an OSError leaves http_server None
StartControlServer ==
    /\ main_pc = "start_control_server"
    /\ \/ http_server' = "serving"
       \/ http_server' = http_server
    /\ main_pc' = "open1"
    /\ UNCHANGED <<agora_service, agora_connection, agora_connected,
                   agora_stream_ready, agora_robot_joined, agora_seq_id,
                   agora_send_thread, agora_running, agora_current_mode>>
    /\ UNCHANGED <<env, calls, result, agora_ok, poll, gate_met, cbv, bcv, brv>>
    /\ UNCHANGED resv

\* start() step 1: result1 = api_post(stream_url); return result1 on a non-zero
\* code; on a payload of another shape the test raises, start() is left by
\* the exception and main() runs its finally block
Open1 ==
    /\ main_pc = "open1"
    /\ calls' = Append(calls, "openStream")
    /\ \E r \in ApiPayloads :
          IF r = "odd"
          THEN /\ main_pc' = teardown_order[1]
               /\ UNCHANGED result
          ELSE /\ result' = r
               /\ main_pc' = IF code_is_0(r) THEN "connect_agora" ELSE "main_check"
    /\ UNCHANGED <<ctrl, env, agora_ok, poll, gate_met, cbv, bcv, brv>>
    /\ UNCHANGED resv

\* connect_agora: the already-connected return, then AgoraService().initialize()
ConnectAgoraInit ==
    /\ main_pc = "connect_agora"
    /\ IF agora_connected
       THEN /\ agora_ok' = "True"
            /\ main_pc' = "stop1"
            /\ UNCHANGED agora_service
       ELSE /\ agora_service' = "obj"
            /\ \/ /\ main_pc' = "rtc_connect"
                  /\ UNCHANGED agora_ok
               \/ /\ agora_ok' = "False"
                  /\ main_pc' = "stop1"
    /\ UNCHANGED <<agora_connection, agora_connected, agora_stream_ready,
                   agora_robot_joined, agora_seq_id, agora_send_thread,
                   agora_running, agora_current_mode, http_server>>
    /\ UNCHANGED <<env, calls, result, poll, gate_met, cbv, bcv, brv>>
    /\ UNCHANGED resv


\* connect_agora called again, going on to build a session although one is
\* connected
ConnectAgoraAgain_reconnects ==
    /\ main_pc = "serve"
    /\ agora_connected
    /\ \A i \in 1..Len(calls) : calls[i] # "connect_agora"
    /\ calls' = Append(calls, "connect_agora")
    /\ agora_service' = "obj"
    /\ main_pc' = "rtc_connect"
    /\ UNCHANGED <<agora_connection, agora_connected, agora_stream_ready,
                   agora_robot_joined, agora_seq_id, agora_send_thread,
                   agora_running, agora_current_mode, http_server>>
    /\ UNCHANGED <<env, result, agora_ok, poll, gate_met, cbv, bcv, brv>>
    /\ UNCHANGED resv

\* connect_agora called once more on the controller while main() serves and
\* the session is connected: `if self.agora_connected: ... return True`.
\* The call is noted in `calls`, once
ConnectAgoraAgain ==
    /\ main_pc = "serve"
    /\ agora_connected
    /\ \A i \in 1..Len(calls) : calls[i] # "connect_agora"
    /\ calls' = Append(calls, "connect_agora")
    /\ agora_ok' = "True"
    /\ UNCHANGED <<ctrl, env, main_pc, result, poll, gate_met, cbv, bcv, brv>>
    /\ UNCHANGED resv

\* connect_agora: RTCConnection(...), register_observer, connect(token, channel, uid)
ConnectAgoraConnect ==
    /\ main_pc = "rtc_connect"
    /\ agora_connection' = "obj"
    /\ \/ /\ link' = "joining"
          /\ main_pc' = "gate"
          /\ poll' = 0
          /\ UNCHANGED agora_ok
       \/ /\ agora_ok' = "False"
          /\ main_pc' = "stop1"
          /\ UNCHANGED <<link, poll>>
    /\ UNCHANGED <<agora_service, agora_connected, agora_stream_ready,
                   agora_robot_joined, agora_seq_id, agora_send_thread,
                   agora_running, agora_current_mode, http_server>>
    /\ UNCHANGED <<n_sent, last_msg, calls, result, gate_met, cbv, bcv, brv>>
    /\ UNCHANGED resv

\* connect_agora: for _ in range(100): if connected and stream_ready: break; sleep
ReadinessGate ==
    /\ main_pc = "gate"
    /\ IF poll < ReadyPolls
       THEN IF agora_connected /\ agora_stream_ready
            THEN /\ gate_met' = TRUE
                 /\ main_pc' = "gate_check"
                 /\ UNCHANGED poll
            ELSE /\ poll' = poll + 1
                 /\ UNCHANGED <<main_pc, gate_met>>
       ELSE /\ main_pc' = "gate_check"
            /\ UNCHANGED <<poll, gate_met>>
    /\ UNCHANGED <<ctrl, env, calls, result, agora_ok, cbv, bcv, brv>>
    /\ UNCHANGED resv

\* The test connect_agora makes after the readiness loop
gate_passes == agora_connected

\* connect_agora: if not self.agora_connected: return False
GateCheck ==
    /\ main_pc = "gate_check"
    /\ IF gate_passes
       THEN /\ main_pc' = "peer"
            /\ poll' = 0
            /\ UNCHANGED agora_ok
       ELSE /\ agora_ok' = "False"
            /\ main_pc' = "stop1"
            /\ UNCHANGED poll
    /\ UNCHANGED <<ctrl, env, calls, result, gate_met, cbv, bcv, brv>>
    /\ UNCHANGED resv

\* PeerGate giving up when the peer has not joined after the last poll
PeerGate_fatal ==
    /\ main_pc = "peer"
    /\ IF poll < PeerPolls /\ ~agora_robot_joined
       THEN /\ poll' = poll + 1
            /\ UNCHANGED <<main_pc, agora_ok>>
       ELSE /\ main_pc' = IF agora_robot_joined THEN "thread_start" ELSE "stop1"
            /\ agora_ok' = IF agora_robot_joined THEN agora_ok ELSE "False"
            /\ UNCHANGED poll
    /\ UNCHANGED <<ctrl, env, calls, result, gate_met, cbv, bcv, brv>>
    /\ UNCHANGED resv

\* connect_agora: for _ in range(50): if robot_joined: break; sleep
PeerGate ==
    /\ main_pc = "peer"
    /\ IF poll < PeerPolls /\ ~agora_robot_joined
       THEN /\ poll' = poll + 1
            /\ UNCHANGED main_pc
       ELSE /\ main_pc' = "thread_start"
            /\ UNCHANGED poll
    /\ UNCHANGED <<ctrl, env, calls, result, agora_ok, gate_met, cbv, bcv, brv>>
    /\ UNCHANGED resv

\* connect_agora: enter control mode if requested, then start the send thread
ThreadStart ==
    /\ main_pc = "thread_start"
    /\ IF start_enter_mode
       THEN \E rs \in [1..3 -> ApiResults] :
               calls' = calls \o enter_calls(enter_endpoints, <<rs[1], rs[2], rs[3]>>)
       ELSE UNCHANGED calls
    /\ agora_running' = TRUE
    /\ agora_send_thread' = TRUE
    /\ bc_pc' = "loop"
    /\ agora_ok' = "True"
    /\ main_pc' = "stop1"
    /\ UNCHANGED <<agora_service, agora_connection, agora_connected,
                   agora_stream_ready, agora_robot_joined, agora_seq_id,
                   agora_current_mode, http_server>>
    /\ UNCHANGED <<env, result, poll, gate_met, cbv, bc_mode, bc_seq, brv>>
    /\ UNCHANGED resv

\* Stop1 without the stop request
Stop1_skipped ==
    /\ main_pc = "stop1"
    /\ main_pc' = "open2"
    /\ UNCHANGED <<ctrl, env, calls, result, agora_ok, poll, gate_met, cbv, bcv, brv>>
    /\ UNCHANGED resv

\* start() step 3, first half: self.api_post(stop_url); time.sleep(0.5)
Stop1 ==
    /\ main_pc = "stop1"
    /\ calls' = Append(calls, "stop")
    /\ main_pc' = "open2"
    /\ UNCHANGED <<ctrl, env, result, agora_ok, poll, gate_met, cbv, bcv, brv>>
    /\ UNCHANGED resv

\* start() step 3, second half: result2 = api_post(stream_url); viewer; return result2
Open2 ==
    /\ main_pc = "open2"
    /\ calls' = Append(calls, "openStream")
    /\ \E r \in ApiPayloads :
          IF r = "odd"
          THEN /\ main_pc' = teardown_order[1]
               /\ UNCHANGED result
          ELSE /\ result' = r
               /\ main_pc' = "main_check"
    /\ UNCHANGED <<ctrl, env, agora_ok, poll, gate_met, cbv, bcv, brv>>
    /\ UNCHANGED resv

\* main(): `if result and not result.get("error")`
start_succeeded(r) == r # "unset" /\ ~has_error(r)

\* main(): serve forever when start succeeded, else fall through to `finally`
MainCheck ==
    /\ main_pc = "main_check"
    /\ main_pc' = IF start_succeeded(result) THEN "serve" ELSE teardown_order[1]
    /\ UNCHANGED <<ctrl, env, calls, result, agora_ok, poll, gate_met, cbv, bcv, brv>>
    /\ UNCHANGED resv

\* Program points of the main thread inside main()'s try block
TryPcs == {"start_control_server", "open1", "connect_agora", "rtc_connect", "gate",
           "gate_check", "peer", "thread_start", "stop1", "open2", "main_check",
           "serve"}

\* main(): except KeyboardInterrupt, raised anywhere in the try block
Interrupt ==
    /\ main_pc \in TryPcs
    /\ main_pc' = teardown_order[1]
    /\ UNCHANGED <<ctrl, env, calls, result, agora_ok, poll, gate_met, cbv, bcv, brv>>
    /\ UNCHANGED resv

\* disconnect_agora was called once more, as a method, after main()'s
\* finally block
called_again == \E i \in 1..Len(calls) : calls[i] = "disconnect_agora"

\* Where disconnect_agora returns to: the rest of the finally block, or the
\* caller of the second call
da_return == IF called_again THEN "exit" ELSE after("da_ready")

\* main()'s finally block ran to its end: its last statement is the
\* stream-stop request (a block left by an exception ends with an SDK call)
teardown_returned ==
    /\ main_pc = "exit"
    /\ calls # <<>>
    /\ calls[Len(calls)] = "stop"

\* disconnect_agora() called a second time, after a teardown that returned
DisconnectAgain ==
    /\ teardown_returned
    /\ ~called_again
    /\ calls' = Append(calls, "disconnect_agora")
    /\ main_pc' = "da_mode"
    /\ UNCHANGED <<ctrl, env, result, agora_ok, poll, gate_met, cbv, bcv, brv>>
    /\ UNCHANGED resv

\* disconnect_agora: self.agora_current_mode = None
DaMode ==
    /\ main_pc = "da_mode"
    /\ agora_current_mode' = None
    /\ main_pc' = after("da_mode")
    /\ UNCHANGED <<agora_service, agora_connection, agora_connected,
                   agora_stream_ready, agora_robot_joined, agora_seq_id,
                   agora_send_thread, agora_running, http_server>>
    /\ UNCHANGED <<env, calls, result, agora_ok, poll, gate_met, cbv, bcv, brv>>
    /\ UNCHANGED resv

\* disconnect_agora: self.agora_running = False
DaRunning ==
    /\ main_pc = "da_running"
    /\ agora_running' = FALSE
    /\ main_pc' = after("da_running")
    /\ UNCHANGED <<agora_service, agora_connection, agora_connected,
                   agora_stream_ready, agora_robot_joined, agora_seq_id,
                   agora_send_thread, agora_current_mode, http_server>>
    /\ UNCHANGED <<env, calls, result, agora_ok, poll, gate_met, cbv, bcv, brv>>
    /\ UNCHANGED resv

\* disconnect_agora: if self.agora_send_thread: join(timeout=2); the join
\* returns when the thread has ended or when the two seconds are over
DaJoin ==
    /\ main_pc = "da_join"
    /\ \/ ~agora_send_thread /\ UNCHANGED calls
       \/ agora_send_thread /\ bc_pc \in {"done", "died"} /\ calls' = Append(calls, "join")
       \/ agora_send_thread /\ bc_pc \notin {"done", "died"} /\ calls' = Append(calls, "join")
    /\ main_pc' = after("da_join")
    /\ UNCHANGED <<ctrl, env, result, agora_ok, poll, gate_met, cbv, bcv, brv>>
    /\ UNCHANGED resv

\* disconnect_agora: self.exit_remote_control_mode()
DaExit ==
    /\ main_pc = "da_exit"
    /\ calls' = Append(calls, "exitMode")
    /\ main_pc' = after("da_exit")
    /\ UNCHANGED <<ctrl, env, result, agora_ok, poll, gate_met, cbv, bcv, brv>>
    /\ UNCHANGED resv

\* An SDK call either returns or raises
SdkOutcomes == {"returns", "raises"}

\* disconnect_agora has no try block and main() catches KeyboardInterrupt only:
\* an exception raised by a statement of the finally block ends the process
\* with the rest of the block not run
after_call(outcome, next) == IF outcome = "raises" THEN "exit" ELSE next

\* disconnect_agora: if self.agora_connection: self.agora_connection.disconnect()
DaDisconnect ==
    /\ main_pc = "da_disconnect"
    /\ IF agora_connection # "None"
       THEN \E outcome \in SdkOutcomes :
               /\ link' = IF outcome = "returns" THEN "disconnected" ELSE link
               /\ calls' = Append(calls, "disconnect")
               /\ main_pc' = after_call(outcome, "da_release")
       ELSE /\ main_pc' = after("da_conn_none")
            /\ UNCHANGED <<link, calls>>
    /\ UNCHANGED <<ctrl, n_sent, last_msg, result, agora_ok, poll, gate_met, cbv, bcv, brv>>
    /\ UNCHANGED resv

\* disconnect_agora: self.agora_connection.release()
DaRelease ==
    /\ main_pc = "da_release"
    /\ \E outcome \in SdkOutcomes :
          /\ link' = IF outcome = "returns" THEN "released" ELSE link
          /\ main_pc' = after_call(outcome, "da_conn_none")
    /\ calls' = Append(calls, "release")
    /\ UNCHANGED <<ctrl, n_sent, last_msg, result, agora_ok, poll, gate_met, cbv, bcv, brv>>
    /\ UNCHANGED resv

\* DaConnNone leaving the released connection object in the field
DaConnNone_kept ==
    /\ main_pc = "da_conn_none"
    /\ main_pc' = after("da_conn_none")
    /\ UNCHANGED <<ctrl, env, calls, result, agora_ok, poll, gate_met, cbv, bcv, brv>>
    /\ UNCHANGED resv

\* disconnect_agora: self.agora_connection = None
DaConnNone ==
    /\ main_pc = "da_conn_none"
    /\ agora_connection' = "None"
    /\ main_pc' = after("da_conn_none")
    /\ UNCHANGED <<agora_service, agora_connected, agora_stream_ready,
                   agora_robot_joined, agora_seq_id, agora_send_thread,
                   agora_running, agora_current_mode, http_server>>
    /\ UNCHANGED <<env, calls, result, agora_ok, poll, gate_met, cbv, bcv, brv>>
    /\ UNCHANGED resv

\* disconnect_agora: if self.agora_service: release(); self.agora_service = None
DaService ==
    /\ main_pc = "da_service"
    /\ IF agora_service # "None"
       THEN \E outcome \in SdkOutcomes :
               /\ agora_service' = IF outcome = "returns" THEN "None" ELSE agora_service
               /\ calls' = Append(calls, "service_release")
               /\ main_pc' = after_call(outcome, after("da_service"))
       ELSE /\ main_pc' = after("da_service")
            /\ UNCHANGED <<agora_service, calls>>
    /\ UNCHANGED <<agora_connection, agora_connected, agora_stream_ready,
                   agora_robot_joined, agora_seq_id, agora_send_thread,
                   agora_running, agora_current_mode, http_server>>
    /\ UNCHANGED <<env, result, agora_ok, poll, gate_met, cbv, bcv, brv>>
    /\ UNCHANGED resv

\* disconnect_agora: self.agora_connected = False
DaConnected ==
    /\ main_pc = "da_connected"
    /\ agora_connected' = FALSE
    /\ main_pc' = after("da_connected")
    /\ UNCHANGED <<agora_service, agora_connection, agora_stream_ready,
                   agora_robot_joined, agora_seq_id, agora_send_thread,
                   agora_running, agora_current_mode, http_server>>
    /\ UNCHANGED <<env, calls, result, agora_ok, poll, gate_met, cbv, bcv, brv>>
    /\ UNCHANGED resv

\* disconnect_agora: self.agora_stream_ready = False
DaReady ==
    /\ main_pc = "da_ready"
    /\ agora_stream_ready' = FALSE
    /\ main_pc' = da_return
    /\ UNCHANGED <<agora_service, agora_connection, agora_connected,
                   agora_robot_joined, agora_seq_id, agora_send_thread,
                   agora_running, agora_current_mode, http_server>>
    /\ UNCHANGED <<env, calls, result, agora_ok, poll, gate_met, cbv, bcv, brv>>
    /\ UNCHANGED resv

\* main() finally: controller.stop_control_server(); shutdown() returns once
\* serve_forever has finished the request it is handling
StopControlServer ==
    /\ main_pc = "stop_control_server"
    /\ IF http_server # "None"
       THEN /\ br_pc = "idle"
            /\ http_server' = "shutdown"
            /\ calls' = Append(calls, "shutdown")
       ELSE UNCHANGED <<http_server, calls>>
    /\ main_pc' = after("stop_control_server")
    /\ UNCHANGED <<agora_service, agora_connection, agora_connected,
                   agora_stream_ready, agora_robot_joined, agora_seq_id,
                   agora_send_thread, agora_running, agora_current_mode>>
    /\ UNCHANGED <<env, result, agora_ok, poll, gate_met, cbv, bcv, brv>>
    /\ UNCHANGED resv

\* main() finally: controller.stop_live_stream()
StopLiveStream ==
    /\ main_pc = "stop_live_stream"
    /\ calls' = Append(calls, "stop")
    /\ main_pc' = after("stop_live_stream")
    /\ UNCHANGED <<ctrl, env, result, agora_ok, poll, gate_met, cbv, bcv, brv>>
    /\ UNCHANGED resv

\* ------------------------------------------- transport callback context
\* The transport delivers lifecycle events to the registered ConnObserver
\* between connect() and disconnect(), one handler at a time.
Delivering == cb_pc = "idle"

\* uid arguments of on_user_joined / on_user_left: the robot's publish_uid or another
Uids == {"publish_uid", "other"}

\* ConnObserver.on_connected: controller.agora_connected = True
OnConnected ==
    /\ Delivering
    /\ link \in {"joining", "down"}
    /\ link' = "up"
    /\ agora_connected' = TRUE
    /\ cb_pc' = "create_data_stream"
    /\ UNCHANGED <<agora_service, agora_connection, agora_stream_ready,
                   agora_robot_joined, agora_seq_id, agora_send_thread,
                   agora_running, agora_current_mode, http_server>>
    /\ UNCHANGED <<n_sent, last_msg, mainv, bcv, brv>>
    /\ UNCHANGED resv

\* OnConnectedStream marking the stream ready only when the reliable ordered
\* channel was created
OnConnectedStream_strict ==
    /\ cb_pc = "create_data_stream"
    /\ \E outcome \in {"created", "refused", "raised"} :
          agora_stream_ready' = IF outcome = "created" THEN TRUE ELSE agora_stream_ready
    /\ cb_pc' = "idle"
    /\ UNCHANGED <<agora_service, agora_connection, agora_connected,
                   agora_robot_joined, agora_seq_id, agora_send_thread,
                   agora_running, agora_current_mode, http_server>>
    /\ UNCHANGED <<env, mainv, bcv, brv>>
    /\ UNCHANGED resv

\* ConnObserver.on_connected: conn._create_data_stream(True, True) returns an
\* id >= 0, returns None or a negative id, or raises; every branch ends with
\* controller.agora_stream_ready = True
OnConnectedStream ==
    /\ cb_pc = "create_data_stream"
    /\ \E outcome \in {"created", "refused", "raised"} :
          agora_stream_ready' = TRUE
    /\ cb_pc' = "idle"
    /\ UNCHANGED <<agora_service, agora_connection, agora_connected,
                   agora_robot_joined, agora_seq_id, agora_send_thread,
                   agora_running, agora_current_mode, http_server>>
    /\ UNCHANGED <<env, mainv, bcv, brv>>
    /\ UNCHANGED resv

\* ConnObserver.on_disconnected: controller.agora_connected = False
OnDisconnected ==
    /\ Delivering
    /\ link = "up"
    /\ link' = "down"
    /\ agora_connected' = FALSE
    /\ cb_pc' = "disconnected_ready"
    /\ UNCHANGED <<agora_service, agora_connection, agora_stream_ready,
                   agora_robot_joined, agora_seq_id, agora_send_thread,
                   agora_running, agora_current_mode, http_server>>
    /\ UNCHANGED <<n_sent, last_msg, mainv, bcv, brv>>
    /\ UNCHANGED resv

\* ConnObserver.on_disconnected: controller.agora_stream_ready = False
OnDisconnectedReady ==
    /\ cb_pc = "disconnected_ready"
    /\ agora_stream_ready' = FALSE
    /\ cb_pc' = "idle"
    /\ UNCHANGED <<agora_service, agora_connection, agora_connected,
                   agora_robot_joined, agora_seq_id, agora_send_thread,
                   agora_running, agora_current_mode, http_server>>
    /\ UNCHANGED <<env, mainv, bcv, brv>>
    /\ UNCHANGED resv

\* ConnObserver.on_user_joined: if str(uid) == str(creds['publish_uid'])
OnUserJoined ==
    /\ Delivering
    /\ link = "up"
    /\ \E uid \in Uids :
          agora_robot_joined' = IF uid = "publish_uid" THEN TRUE ELSE agora_robot_joined
    /\ UNCHANGED <<agora_service, agora_connection, agora_connected,
                   agora_stream_ready, agora_seq_id, agora_send_thread,
                   agora_running, agora_current_mode, http_server>>
    /\ UNCHANGED <<link, n_sent, last_msg, mainv, cbv, bcv, brv>>
    /\ UNCHANGED resv

\* OnUserLeft taking the departure of the robot for the end of the connection
OnUserLeft_disconnects ==
    /\ Delivering
    /\ link = "up"
    /\ \E uid \in Uids :
          /\ agora_robot_joined' = IF uid = "publish_uid" THEN FALSE ELSE agora_robot_joined
          /\ agora_connected' = IF uid = "publish_uid" THEN FALSE ELSE agora_connected
    /\ UNCHANGED <<agora_service, agora_connection,
                   agora_stream_ready, agora_seq_id, agora_send_thread,
                   agora_running, agora_current_mode, http_server>>
    /\ UNCHANGED <<link, n_sent, last_msg, mainv, cbv, bcv, brv>>
    /\ UNCHANGED resv

\* ConnObserver.on_user_left: if str(uid) == str(creds['publish_uid'])
OnUserLeft ==
    /\ Delivering
    /\ link = "up"
    /\ \E uid \in Uids :
          agora_robot_joined' = IF uid = "publish_uid" THEN FALSE ELSE agora_robot_joined
    /\ UNCHANGED <<agora_service, agora_connection, agora_connected,
                   agora_stream_ready, agora_seq_id, agora_send_thread,
                   agora_running, agora_current_mode, http_server>>
    /\ UNCHANGED <<link, n_sent, last_msg, mainv, cbv, bcv, brv>>
    /\ UNCHANGED resv

\* States of the transport connection in which it is not up and the SDK goes
\* on trying to bring it back
Interrupted == {"down", "reconnecting", "lost"}


\* OnReconnected marking the stream ready again
OnReconnected_restores ==
    /\ Delivering
    /\ link \in Interrupted
    /\ link' = "up"
    /\ agora_connected' = TRUE
    /\ agora_stream_ready' = TRUE
    /\ UNCHANGED <<agora_service, agora_connection, agora_robot_joined,
                   agora_seq_id, agora_send_thread, agora_running,
                   agora_current_mode, http_server>>
    /\ UNCHANGED <<n_sent, last_msg, mainv, cbv, bcv, brv>>
    /\ UNCHANGED resv

\* OnReconnected clearing the latch as well
OnReconnected_clears ==
    /\ Delivering
    /\ link \in Interrupted
    /\ link' = "up"
    /\ agora_connected' = TRUE
    /\ agora_current_mode' = None
    /\ UNCHANGED <<agora_service, agora_connection, agora_stream_ready,
                   agora_robot_joined, agora_seq_id, agora_send_thread,
                   agora_running, http_server>>
    /\ UNCHANGED <<n_sent, last_msg, mainv, cbv, bcv, brv>>
    /\ UNCHANGED resv

\* ConnObserver.on_reconnected: controller.agora_connected = True
OnReconnected ==
    /\ Delivering
    /\ link \in Interrupted
    /\ link' = "up"
    /\ agora_connected' = TRUE
    /\ UNCHANGED <<agora_service, agora_connection, agora_stream_ready,
                   agora_robot_joined, agora_seq_id, agora_send_thread,
                   agora_running, agora_current_mode, http_server>>
    /\ UNCHANGED <<n_sent, last_msg, mainv, cbv, bcv, brv>>
    /\ UNCHANGED resv

\* ConnObserver.on_reconnecting: pass (the transport reports that the
\* connection was interrupted and that it tries to rejoin)
OnReconnecting ==
    /\ Delivering
    /\ link = "up"
    /\ link' = "reconnecting"
    /\ UNCHANGED <<ctrl, n_sent, last_msg, mainv, cbv, bcv, brv>>
    /\ UNCHANGED resv

\* ConnObserver.on_connection_lost: pass (the transport reports that it could
\* not rejoin in time; it goes on trying)
OnConnectionLost ==
    /\ Delivering
    /\ link \in {"up", "reconnecting"}
    /\ link' = "lost"
    /\ UNCHANGED <<ctrl, n_sent, last_msg, mainv, cbv, bcv, brv>>
    /\ UNCHANGED resv

\* ConnObserver.on_connection_failure: pass (the transport reports that the
\* join, or the rejoin, failed for good)
OnConnectionFailure ==
    /\ Delivering
    /\ link \in {"joining", "reconnecting", "lost"}
    /\ link' = "failed"
    /\ UNCHANGED <<ctrl, n_sent, last_msg, mainv, cbv, bcv, brv>>
    /\ UNCHANGED resv

\* ---------------------------------------------- _send_agora_message_now
\* `if not self.agora_connection or not self.agora_stream_ready: return`
send_allowed(connection, stream_ready) == connection # "None" /\ stream_ready

\* The JSON object of one message (the timestamp is left out); `via` names the
\* caller and is not part of the wire format
message(seq_id, mode, via) ==
    [seq_id |-> seq_id, mode |-> mode, version |-> 2, x |-> 1, y |-> 0, via |-> via]

\* send_stream_message(msg): the message is handed to the transport
Transmit(msg) ==
    /\ n_sent < MaxSent
    /\ n_sent' = n_sent + 1
    /\ last_msg' = msg

\* BcSleep ending the thread after the first pass of the loop that got as far
\* as a send
BcSleep_once ==
    /\ bc_pc' = IF bc_pc = "inc_store" THEN "done" ELSE "loop"
    /\ bc_mode' = None
    /\ bc_seq' = 0

\* ------------------------------------------------- broadcaster thread
\* The thread's locals are dead once _send_agora_message_now has returned and
\* the loop sleeps: the model clears them
BcSleep ==
    /\ bc_pc' = "loop"
    /\ bc_mode' = None
    /\ bc_seq' = 0

\* _agora_send_loop: while self.agora_running
BcLoop ==
    /\ bc_pc = "loop"
    /\ bc_pc' = IF agora_running THEN "read_mode" ELSE "done"
    /\ UNCHANGED <<ctrl, env, mainv, cbv, bc_mode, bc_seq, brv>>
    /\ UNCHANGED resv

\* _agora_send_loop: mode = self.agora_current_mode
BcReadMode ==
    /\ bc_pc = "read_mode"
    /\ bc_mode' = agora_current_mode
    /\ bc_pc' = "check_connected"
    /\ UNCHANGED <<ctrl, env, mainv, cbv, bc_seq, brv>>
    /\ UNCHANGED resv

\* _agora_send_loop: `if self.agora_connected and ...`, else sleep and loop
BcCheckConnected ==
    /\ bc_pc = "check_connected"
    /\ IF agora_connected
       THEN bc_pc' = "check_ready" /\ UNCHANGED <<bc_mode, bc_seq>>
       ELSE BcSleep
    /\ UNCHANGED <<ctrl, env, mainv, cbv, brv>>
    /\ UNCHANGED resv

\* _agora_send_loop: `... and self.agora_stream_ready and mode is not None`
BcCheckReady ==
    /\ bc_pc = "check_ready"
    /\ IF agora_stream_ready /\ bc_mode # None
       THEN bc_pc' = "send_guard" /\ UNCHANGED <<bc_mode, bc_seq>>
       ELSE BcSleep
    /\ UNCHANGED <<ctrl, env, mainv, cbv, brv>>
    /\ UNCHANGED resv

\* _send_agora_message_now(mode): the early return
BcSendGuard ==
    /\ bc_pc = "send_guard"
    /\ IF send_allowed(agora_connection, agora_stream_ready)
       THEN bc_pc' = "build" /\ UNCHANGED <<bc_mode, bc_seq>>
       ELSE BcSleep
    /\ UNCHANGED <<ctrl, env, mainv, cbv, brv>>
    /\ UNCHANGED resv

\* _send_agora_message_now: msg = json.dumps({"seq_id": self.agora_seq_id, ...})
BcBuild ==
    /\ bc_pc = "build"
    /\ bc_seq' = agora_seq_id
    /\ bc_pc' = "transmit"
    /\ UNCHANGED <<ctrl, env, mainv, cbv, bc_mode, brv>>
    /\ UNCHANGED resv

\* _send_agora_message_now: self.agora_connection.send_stream_message(msg); with
\* agora_connection None this raises AttributeError, which ends the thread
BcTransmit ==
    /\ bc_pc = "transmit"
    /\ IF agora_connection = "None"
       THEN /\ bc_pc' = "died"
            /\ bc_mode' = None
            /\ bc_seq' = 0
            /\ UNCHANGED <<n_sent, last_msg>>
       ELSE /\ Transmit(message(bc_seq, bc_mode, "loop"))
            /\ bc_pc' = "inc_load"
            /\ UNCHANGED <<bc_mode, bc_seq>>
    /\ UNCHANGED <<ctrl, link, mainv, cbv, brv>>
    /\ UNCHANGED resv

\* _send_agora_message_now: self.agora_seq_id += 1, the load
BcIncLoad ==
    /\ bc_pc = "inc_load"
    /\ bc_seq' = agora_seq_id
    /\ bc_pc' = "inc_store"
    /\ UNCHANGED <<ctrl, env, mainv, cbv, bc_mode, brv>>
    /\ UNCHANGED resv

\* _send_agora_message_now: self.agora_seq_id += 1, the store; then sleep and loop
BcIncStore ==
    /\ bc_pc = "inc_store"
    /\ agora_seq_id' = bc_seq + 1
    /\ BcSleep
    /\ UNCHANGED <<agora_service, agora_connection, agora_connected,
                   agora_stream_ready, agora_robot_joined, agora_send_thread,
                   agora_running, agora_current_mode, http_server>>
    /\ UNCHANGED <<env, mainv, cbv, brv>>
    /\ UNCHANGED resv

\* ------------------------------------------------- HTTP handler thread
\* Bodies of the POST /control requests the model draws from: direction tokens
\* of the viewer, a token dir_map does not know, a JSON object without a
\* direction key, and a body json.loads rejects
Bodies == {"up", "down", "none", "bogus", "<missing>", "<malformed>"}

\* data.get('direction', 'none')
dir_in_of(body) == IF body = "<missing>" THEN "none" ELSE body

\* The `direction` do_POST passes to send_agora_control
direction_of(body) == IF body = "<malformed>" THEN "stop" ELSE dir_map(dir_in_of(body))

\* do_POST reaches self._send_json(code, ...)
Respond(code) ==
    /\ br_resp' = code
    /\ br_pc' = "respond"

\* do_POST, path '/control': read and parse the body, map the direction; a
\* body that does not parse is answered 500 by the except branch
ControlRequestFrom(bodies) ==
    /\ br_pc = "idle"
    /\ http_server = "serving"
    /\ main_pc # "exit"
    /\ \E body \in bodies :
          /\ br_direction' = direction_of(body)
          /\ IF body = "<malformed>"
             THEN Respond(500)
             ELSE br_pc' = "check_connected" /\ UNCHANGED br_resp
    /\ UNCHANGED <<ctrl, env, mainv, cbv, bcv, br_seq, br_fx>>
    /\ UNCHANGED apiv
    /\ UNCHANGED resv


\* A POST /control request with one of the bodies of the model
ControlRequest == ControlRequestFrom(Bodies)

\* The direction tokens the viewer page sends
UiTokens == {"up", "down", "left", "right", "none"}

\* A POST /control request of the viewer page, opened at the end of start()
UiRequest == main_pc = "serve" /\ ControlRequestFrom(UiTokens)


\* Bodies of a client that asks for forward, sends a token dir_map does not
\* hold, or sends no direction at all
StrayBodies == {"up", "bogus", "<missing>"}

\* A POST /control request of that client
StrayRequest == ControlRequestFrom(StrayBodies)

\* Arguments of a direct call of send_agora_control: the four directions of
\* AGORA_MODES, 'stop', and a name AGORA_MODES does not hold
Directions == {"forward", "rotate_left", "rotate_right", "u_turn", "stop", "sideways"}

\* send_agora_control(direction) called as a method, without do_POST's
\* dir_map and availability test in front of it
SetDirectionCall ==
    /\ br_pc = "idle"
    /\ main_pc # "exit"
    /\ \E direction \in Directions : br_direction' = direction
    /\ br_pc' = "send_agora_control"
    /\ UNCHANGED <<ctrl, env, mainv, cbv, bcv, br_seq, br_resp, br_fx>>
    /\ UNCHANGED apiv
    /\ UNCHANGED resv

\* do_POST: `if self.controller.agora_connected and ...`, else 503
BrCheckConnected ==
    /\ br_pc = "check_connected"
    /\ IF agora_connected
       THEN br_pc' = "check_ready" /\ UNCHANGED br_resp
       ELSE Respond(503)
    /\ UNCHANGED <<ctrl, env, mainv, cbv, bcv, br_direction, br_seq, br_fx>>
    /\ UNCHANGED apiv
    /\ UNCHANGED resv

\* BrCheckReady with the stream_ready test left out of the condition
BrCheckReady_untested ==
    /\ br_pc = "check_ready"
    /\ br_pc' = "send_agora_control"
    /\ UNCHANGED <<ctrl, env, mainv, cbv, bcv, br_direction, br_seq, br_resp, br_fx>>
    /\ UNCHANGED apiv
    /\ UNCHANGED resv

\* do_POST: `... and self.controller.agora_stream_ready`, else 503
BrCheckReady ==
    /\ br_pc = "check_ready"
    /\ IF agora_stream_ready
       THEN br_pc' = "send_agora_control" /\ UNCHANGED br_resp
       ELSE Respond(503)
    /\ UNCHANGED <<ctrl, env, mainv, cbv, bcv, br_direction, br_seq, br_fx>>
    /\ UNCHANGED apiv
    /\ UNCHANGED resv

\* BrSendAgoraControl keeping the direction already latched, if any
BrSendAgoraControl_keeps ==
    /\ br_pc = "send_agora_control"
    /\ LET direction == br_direction
           mode == AGORA_MODES(direction)
       IN  IF direction = "stop"
           THEN /\ agora_current_mode' = None
                /\ br_fx' = br_fx \cup {"latch"}
                /\ Respond(200)
           ELSE IF mode = None
           THEN /\ Respond(200)
                /\ UNCHANGED <<agora_current_mode, br_fx>>
           ELSE /\ agora_current_mode' =
                      IF agora_current_mode = None THEN mode ELSE agora_current_mode
                /\ br_fx' = br_fx \cup {"latch"}
                              \cup (IF agora_current_mode = None THEN {"from_none"} ELSE {})
                /\ br_pc' = "send_guard"
                /\ UNCHANGED br_resp
    /\ UNCHANGED <<agora_service, agora_connection, agora_connected,
                   agora_stream_ready, agora_robot_joined, agora_seq_id,
                   agora_send_thread, agora_running, http_server>>
    /\ UNCHANGED <<env, mainv, cbv, bcv, br_direction, br_seq>>
    /\ UNCHANGED apiv
    /\ UNCHANGED resv

\* BrSendAgoraControl sending a message for 'stop' as for a direction
BrSendAgoraControl_stop_sends ==
    /\ br_pc = "send_agora_control"
    /\ LET direction == br_direction
           mode == AGORA_MODES(direction)
       IN  IF direction # "stop" /\ mode = None
           THEN /\ Respond(200)
                /\ UNCHANGED <<agora_current_mode, br_fx>>
           ELSE /\ agora_current_mode' = mode
                /\ br_fx' = br_fx \cup {"latch"}
                              \cup (IF agora_current_mode = None THEN {"from_none"} ELSE {})
                /\ br_pc' = "send_guard"
                /\ UNCHANGED br_resp
    /\ UNCHANGED <<agora_service, agora_connection, agora_connected,
                   agora_stream_ready, agora_robot_joined, agora_seq_id,
                   agora_send_thread, agora_running, http_server>>
    /\ UNCHANGED <<env, mainv, cbv, bcv, br_direction, br_seq>>
    /\ UNCHANGED apiv
    /\ UNCHANGED resv

\* send_agora_control(direction) up to the latch: 'stop' clears the latch and
\* returns, an unknown direction returns False, a known one is latched; do_POST
\* answers 200 whatever send_agora_control returned
BrSendAgoraControl ==
    /\ br_pc = "send_agora_control"
    /\ LET direction == br_direction
           mode == AGORA_MODES(direction)
       IN  IF direction = "stop"
           THEN /\ agora_current_mode' = None
                /\ br_fx' = br_fx \cup {"latch"}
                /\ Respond(200)
           ELSE IF mode = None
           THEN /\ Respond(200)
                /\ UNCHANGED <<agora_current_mode, br_fx>>
           ELSE /\ agora_current_mode' = mode
                /\ br_fx' = br_fx \cup {"latch"}
                              \cup (IF agora_current_mode = None THEN {"from_none"} ELSE {})
                /\ br_pc' = "send_guard"
                /\ UNCHANGED br_resp
    /\ UNCHANGED <<agora_service, agora_connection, agora_connected,
                   agora_stream_ready, agora_robot_joined, agora_seq_id,
                   agora_send_thread, agora_running, http_server>>
    /\ UNCHANGED <<env, mainv, cbv, bcv, br_direction, br_seq>>
    /\ UNCHANGED apiv
    /\ UNCHANGED resv

\* _send_agora_message_now(mode) called by send_agora_control: the early return
BrSendGuard ==
    /\ br_pc = "send_guard"
    /\ IF send_allowed(agora_connection, agora_stream_ready)
       THEN br_pc' = "build" /\ UNCHANGED br_resp
       ELSE Respond(200)
    /\ UNCHANGED <<ctrl, env, mainv, cbv, bcv, br_direction, br_seq, br_fx>>
    /\ UNCHANGED apiv
    /\ UNCHANGED resv

\* _send_agora_message_now: msg = json.dumps({"seq_id": self.agora_seq_id, ...})
BrBuild ==
    /\ br_pc = "build"
    /\ br_seq' = agora_seq_id
    /\ br_pc' = "transmit"
    /\ UNCHANGED <<ctrl, env, mainv, cbv, bcv, br_direction, br_resp, br_fx>>
    /\ UNCHANGED apiv
    /\ UNCHANGED resv

\* _send_agora_message_now: self.agora_connection.send_stream_message(msg); with
\* agora_connection None this raises AttributeError, which do_POST answers 500
BrTransmit ==
    /\ br_pc = "transmit"
    /\ IF agora_connection = "None"
       THEN /\ Respond(500)
            /\ UNCHANGED <<n_sent, last_msg, br_fx>>
       ELSE /\ Transmit(message(br_seq, AGORA_MODES(br_direction), "control"))
            /\ br_fx' = br_fx \cup {"send"}
            /\ br_pc' = "inc_load"
            /\ UNCHANGED br_resp
    /\ UNCHANGED <<ctrl, link, mainv, cbv, bcv, br_direction, br_seq>>
    /\ UNCHANGED apiv
    /\ UNCHANGED resv

\* _send_agora_message_now: self.agora_seq_id += 1, the load
BrIncLoad ==
    /\ br_pc = "inc_load"
    /\ br_seq' = agora_seq_id
    /\ br_pc' = "inc_store"
    /\ UNCHANGED <<ctrl, env, mainv, cbv, bcv, br_direction, br_resp, br_fx>>
    /\ UNCHANGED apiv
    /\ UNCHANGED resv

\* _send_agora_message_now: self.agora_seq_id += 1, the store; send_agora_control
\* returns True and do_POST answers 200
BrIncStore ==
    /\ br_pc = "inc_store"
    /\ agora_seq_id' = br_seq + 1
    /\ br_fx' = br_fx \cup {"seq"}
    /\ Respond(200)
    /\ UNCHANGED <<agora_service, agora_connection, agora_connected,
                   agora_stream_ready, agora_robot_joined, agora_send_thread,
                   agora_running, agora_current_mode, http_server>>
    /\ UNCHANGED <<env, mainv, cbv, bcv, br_direction, br_seq>>
    /\ UNCHANGED apiv
    /\ UNCHANGED resv

\* do_POST: self._send_json(code, ...) writes the response and the handler
\* returns; its locals are dead and the model clears them
BrRespond ==
    /\ br_pc = "respond"
    /\ br_pc' = "idle"
    /\ br_direction' = "stop"
    /\ br_seq' = 0
    /\ br_resp' = 0
    /\ br_fx' = {}
    /\ br_calls' = <<>>
    /\ br_payload' = no_payload
    /\ UNCHANGED <<ctrl, env, mainv, cbv, bcv>>
    /\ UNCHANGED resv

\* ------------------------------ /enter-control, /exit-control, /go-home
\* do_POST paths that call the device-management API, with the program point
\* each leads to
ApiPaths == {"/enter-control", "/exit-control", "/go-home"}

path_pc(path) ==
    CASE path = "/enter-control" -> "enter"
      [] path = "/exit-control"  -> "exit_control"
      [] path = "/go-home"       -> "go_home"

\* One api_post call made by the handler and what it returned
call(endpoint, r) == [endpoint |-> endpoint, result |-> r]

\* Payload do_POST writes when it passes a result of api_post on
passed_on(endpoint, r) == [endpoint |-> endpoint, result |-> r]

\* {"error": "Could not enter control mode"}
could_not_enter == [error |-> "Could not enter control mode"]

\* do_POST: a request for one of ApiPaths arrives (none of them reads the body)
ApiRequest ==
    /\ br_pc = "idle"
    /\ http_server = "serving"
    /\ main_pc # "exit"
    /\ \E path \in ApiPaths : br_pc' = path_pc(path)
    /\ UNCHANGED <<ctrl, env, mainv, cbv, bcv, br_direction, br_seq, br_resp, br_fx, apiv>>
    /\ UNCHANGED resv

\* EnterCall going on to the next endpoint after a result with code 0 and
\* returning the last result
EnterCall_no_break ==
    /\ br_pc = "enter"
    /\ LET endpoint == enter_endpoints[Len(br_calls) + 1]
       IN  \E r \in ApiPayloads :
              /\ br_calls' = Append(br_calls, call(endpoint, r))
              /\ IF r = "odd"
                 THEN /\ br_pc' = "crashed"
                      /\ UNCHANGED <<br_resp, br_payload>>
                 ELSE IF Len(br_calls) + 1 = Len(enter_endpoints)
                 THEN /\ br_payload' = IF code_is_0(r) THEN passed_on(endpoint, r)
                                       ELSE could_not_enter
                      /\ Respond(200)
                 ELSE UNCHANGED <<br_pc, br_resp, br_payload>>
    /\ UNCHANGED <<ctrl, env, mainv, cbv, bcv, br_direction, br_seq, br_fx>>
    /\ UNCHANGED resv

\* enter_remote_control_mode, one turn of its loop: api_post(endpoint, body),
\* then the test of the result's code, which raises on a payload of another
\* shape (do_POST has no try block on this path); a code of 0 returns the
\* result, the last endpoint's failure returns the aggregated error, and
\* do_POST answers 200 with what was returned
EnterCall ==
    /\ br_pc = "enter"
    /\ LET endpoint == enter_endpoints[Len(br_calls) + 1]
       IN  \E r \in ApiPayloads :
              /\ br_calls' = Append(br_calls, call(endpoint, r))
              /\ IF r = "odd"
                 THEN /\ br_pc' = "crashed"
                      /\ UNCHANGED <<br_resp, br_payload>>
                 ELSE IF code_is_0(r)
                 THEN /\ br_payload' = passed_on(endpoint, r)
                      /\ Respond(200)
                 ELSE IF Len(br_calls) + 1 = Len(enter_endpoints)
                 THEN /\ br_payload' = could_not_enter
                      /\ Respond(200)
                 ELSE UNCHANGED <<br_pc, br_resp, br_payload>>
    /\ UNCHANGED <<ctrl, env, mainv, cbv, bcv, br_direction, br_seq, br_fx>>
    /\ UNCHANGED resv

\* do_POST '/exit-control': result = exit_remote_control_mode(); _send_json(200, result)
ExitControlCall ==
    /\ br_pc = "exit_control"
    /\ \E r \in ApiPayloads :
          /\ br_calls' = Append(br_calls, call("exitMode", r))
          /\ br_payload' = passed_on("exitMode", r)
    /\ Respond(200)
    /\ UNCHANGED <<ctrl, env, mainv, cbv, bcv, br_direction, br_seq, br_fx>>
    /\ UNCHANGED resv

\* GoHomeCall clearing the latch before it calls the API
GoHomeCall_stops ==
    /\ br_pc = "go_home"
    /\ \E r \in ApiPayloads :
          /\ br_calls' = Append(br_calls, call("goHomes", r))
          /\ br_payload' = passed_on("goHomes", r)
    /\ Respond(200)
    /\ agora_current_mode' = None
    /\ UNCHANGED <<agora_service, agora_connection, agora_connected,
                   agora_stream_ready, agora_robot_joined, agora_seq_id,
                   agora_send_thread, agora_running, http_server>>
    /\ UNCHANGED <<env, mainv, cbv, bcv, br_direction, br_seq, br_fx>>
    /\ UNCHANGED resv

\* do_POST '/go-home': result = go_home(); _send_json(200, result)
GoHomeCall ==
    /\ br_pc = "go_home"
    /\ \E r \in ApiPayloads :
          /\ br_calls' = Append(br_calls, call("goHomes", r))
          /\ br_payload' = passed_on("goHomes", r)
    /\ Respond(200)
    /\ UNCHANGED <<ctrl, env, mainv, cbv, bcv, br_direction, br_seq, br_fx>>
    /\ UNCHANGED resv

\* An exception that leaves do_POST is caught by the server's handle_error:
\* the connection is closed with no response written and the server goes on
\* to the next request
HandleError ==
    /\ br_pc = "crashed"
    /\ br_pc' = "idle"
    /\ br_calls' = <<>>
    /\ UNCHANGED <<ctrl, env, mainv, cbv, bcv, br_direction, br_seq, br_resp, br_fx, br_payload>>
    /\ UNCHANGED resv

\* ------------------------------------------------- credential resolver
\* creds = self._parse_stream_creds(data)
ParseStreamCreds ==
    /\ creds = unparsed
    /\ creds' = parse_stream_creds(data)
    /\ UNCHANGED <<ctrl, env, mainv, cbv, bcv, brv, data>>

\* ------------------------------------------------------- specification
StartupStep ==
    \/ StartControlServer \/ Open1 \/ ConnectAgoraInit \/ ConnectAgoraConnect
    \/ ReadinessGate \/ GateCheck \/ PeerGate \/ ThreadStart \/ Stop1 \/ Open2
    \/ MainCheck

TeardownStep ==
    \/ DaMode \/ DaRunning \/ DaJoin \/ DaExit \/ DaDisconnect \/ DaRelease
    \/ DaConnNone \/ DaService \/ DaConnected \/ DaReady
    \/ StopControlServer \/ StopLiveStream

MainStep == StartupStep \/ Interrupt \/ TeardownStep

ConnectionStep ==
    \/ OnConnected \/ OnConnectedStream \/ OnDisconnected \/ OnDisconnectedReady
    \/ OnReconnected

PeerStep == OnUserJoined \/ OnUserLeft

FailureStep == OnReconnecting \/ OnConnectionLost \/ OnConnectionFailure

CallbackStep == ConnectionStep \/ PeerStep \/ FailureStep

BcIdleStep == BcLoop \/ BcReadMode \/ BcCheckConnected \/ BcCheckReady

BcSendStep == BcSendGuard \/ BcBuild \/ BcTransmit \/ BcIncLoad \/ BcIncStore

BroadcasterStep == BcIdleStep \/ BcSendStep

HandlerStep ==
    \/ BrCheckConnected \/ BrCheckReady \/ BrSendAgoraControl
    \/ BrSendGuard \/ BrBuild \/ BrTransmit \/ BrIncLoad \/ BrIncStore \/ BrRespond

BridgeStep == ControlRequest \/ HandlerStep

ApiStep == ApiRequest \/ EnterCall \/ ExitControlCall \/ GoHomeCall \/ HandleError

\* The whole program: every thread, every event, every request
Next == MainStep \/ CallbackStep \/ BroadcasterStep \/ BridgeStep \/ ApiStep

Spec == Init /\ [][Next]_vars

\* The program while the viewer sends no request: startup, the transport's
\* events, the idle broadcaster and teardown
NextLifecycle == MainStep \/ CallbackStep \/ BcIdleStep

SpecLifecycle == Init /\ [][NextLifecycle]_vars

\* The program while the viewer sends requests at any time, the transport
\* connects and stays connected, and Ctrl+C comes while main() serves
InterruptWhileServing == main_pc = "serve" /\ Interrupt

NextControl ==
    \/ StartupStep \/ InterruptWhileServing \/ TeardownStep
    \/ OnConnected \/ OnConnectedStream
    \/ BroadcasterStep \/ BridgeStep

SpecControl == Init /\ [][NextControl]_vars


\* The program while the connection comes and goes, the peer is silent, and
\* the viewer, opened at the end of start(), sends requests while main() serves
RequestWhileServing == main_pc = "serve" /\ ControlRequest

NextTransport ==
    \/ StartupStep \/ TeardownStep \/ ConnectionStep
    \/ BroadcasterStep \/ RequestWhileServing \/ HandlerStep

SpecTransport == Init /\ [][NextTransport]_vars

\* The session from startup on, for as long as main() serves: the transport
\* connects and stays connected, the viewer sends /control requests while
\* main() serves, and the broadcaster thread is scheduled again and again
\* (time.sleep(0.1) returns, and the thread takes the step it can take)
NextBroadcast ==
    \/ StartupStep \/ OnConnected \/ OnConnectedStream
    \/ BroadcasterStep \/ RequestWhileServing \/ HandlerStep

SpecBroadcast == Init /\ [][NextBroadcast]_vars /\ WF_vars(BroadcasterStep)

\* send_agora_control under every argument: the program of SpecControl with
\* the broadcaster, which never writes the latch, left out and with direct
\* calls of the method besides the viewer's requests
NextSetDirection ==
    \/ StartupStep \/ InterruptWhileServing \/ TeardownStep
    \/ OnConnected \/ OnConnectedStream
    \/ SetDirectionCall \/ BridgeStep

SpecSetDirection == Init /\ [][NextSetDirection]_vars

\* The control server under every request: the program of SpecControl with
\* the broadcaster left out and with the requests that call the
\* device-management API besides those for /control
NextBridge ==
    \/ StartupStep \/ InterruptWhileServing \/ TeardownStep
    \/ OnConnected \/ OnConnectedStream
    \/ BridgeStep \/ ApiStep

SpecBridge == Init /\ [][NextBridge]_vars

\* The session under every event of the transport, with the viewer sending
\* /control requests while main() serves; the broadcaster and teardown are
\* left out
NextEvents == StartupStep \/ CallbackStep \/ RequestWhileServing \/ HandlerStep

SpecEvents == Init /\ [][NextEvents]_vars


\* The program of SpecLifecycle with one more call of connect_agora made on
\* the connected controller
NextConnect == NextLifecycle \/ ConnectAgoraAgain

SpecConnect == Init /\ [][NextConnect]_vars


\* The session of SpecBroadcast (without the fairness condition) under the
\* requests of the viewer page: each of its five tokens, while main() serves
NextWire ==
    \/ StartupStep \/ OnConnected \/ OnConnectedStream
    \/ BroadcasterStep \/ UiRequest \/ HandlerStep

SpecWire == Init /\ [][NextWire]_vars


\* The program of SpecControl with the broadcaster left out, under the
\* requests of a client whose tokens are forward, unknown or missing
NextStray ==
    \/ StartupStep \/ InterruptWhileServing \/ TeardownStep
    \/ OnConnected \/ OnConnectedStream
    \/ StrayRequest \/ HandlerStep

SpecStray == Init /\ [][NextStray]_vars

\* _parse_stream_creds applied to each of these objects
NextResolver == ParseStreamCreds

SpecResolver == InitResolver /\ [][NextResolver]_vars

\* The program of SpecLifecycle followed by a second call of disconnect_agora
NextDisconnect == MainStep \/ CallbackStep \/ BcIdleStep \/ DisconnectAgain

SpecDisconnect == Init /\ [][NextDisconnect]_vars

\* ---------------------------------------------------------------- claims
InTeardown == main_pc \notin TryPcs

\* C5: in every teardown, whether main() got there through Ctrl+C or through a
\* failed start, the exit-control-mode request is issued, and it is issued
\* before the transport connection is disconnected and before it is released.
C5_ExitBeforeDisconnect ==
    /\ \A i \in 1..Len(calls) :
          calls[i] \in {"disconnect", "release"}
             => \E j \in 1..(i - 1) : calls[j] = "exitMode"
    /\ main_pc \in {"stop_control_server", "stop_live_stream", "exit"}
          => \E j \in 1..Len(calls) : calls[j] = "exitMode"

\* A teardown that followed a failed start has released a connection
C5_Witness ==
    /\ main_pc = "exit"
    /\ has_error(result)
    /\ \E i \in 1..Len(calls) : calls[i] = "release"

\* C6: peer_joined => connected in every reachable state.
C6_PeerJoinedImpliesConnected == agora_robot_joined => agora_connected

\* C8: once connect_agora has failed (the transport refused the connect, or
\* the readiness gate was not met), start() does not release the stream slot,
\* does not request the viewer's credentials, and main() does not serve.
C8_ConnectFailureIsFatal ==
    (agora_ok = "False" /\ agora_connection # "None")
       => /\ main_pc \notin {"open2", "serve"}
          /\ \A i \in 1..Len(calls) : calls[i] # "stop" \/ InTeardown

\* C9: once a stream-credentials request has returned a non-zero result code
\* (or failed), no further startup step is taken and main() goes to teardown
\* instead of its serve loop.
C9_CredentialFailureIsFatal ==
    (result \in {"fail", "exc"}) => (main_pc = "main_check" \/ InTeardown)

\* C10: the readiness gate reports success only if connected && stream_ready
\* were both true at one of its polls, and reports failure whenever they were
\* not within its polls.
C10_GateReportsConjunction ==
    /\ poll <= ReadyPolls
    /\ main_pc \in {"peer", "thread_start"} => gate_met

\* A step that hands a message to the transport
Transmitted == n_sent' > n_sent

\* C1: the seq_id values of the transmitted messages are strictly increasing
\* in transmission order, so no seq_id is transmitted twice.
C1_SeqIdStrictlyIncreasing ==
    [][Transmitted => last_msg'.seq_id > last_msg.seq_id]_vars

\* C2: while the latch is None (initially, or once send_agora_control('stop')
\* has returned and no direction was latched since) no message is handed to
\* the transport.  Teardown, which clears the latch too, is left out.
C2_NoMessageWhileLatchNone ==
    [][(Transmitted /\ ~InTeardown) => agora_current_mode # None]_vars

\* send_agora_control(d) for a movement d returns to do_POST in this step
SetDirectionReturns ==
    /\ br_pc \in {"send_guard", "transmit", "inc_store"}
    /\ br_pc' = "respond"

\* The call in progress took the latch from None to its d and has not yet
\* handed its own message to the transport
FreshLatch ==
    /\ br_pc \in {"send_guard", "build", "transmit"}
    /\ "from_none" \in br_fx

\* C3: with the session connected && stream_ready, send_agora_control(d) has
\* latched d and handed one message with d's code to the transport when it
\* returns; and the first message transmitted after a None -> Some(d)
\* transition of the latch carries d's code.  Stated for the steps taken while
\* main() is not tearing the session down.
C3_ImmediateSendCarriesDirection ==
    [][~InTeardown =>
         /\ (SetDirectionReturns /\ agora_connected /\ agora_stream_ready)
              => /\ agora_current_mode' = AGORA_MODES(br_direction)
                 /\ "send" \in br_fx'
                 /\ br_resp' = 200
         /\ (Transmitted /\ FreshLatch)
              => last_msg'.mode = AGORA_MODES(br_direction)]_vars

\* do_POST gets to its response without having called send_agora_control
AnsweredBeforeControl ==
    /\ br_pc \in {"idle", "check_connected", "check_ready"}
    /\ br_pc' = "respond"

\* The step leaves CommandState alone and transmits nothing
CommandStateUnchanged ==
    /\ UNCHANGED <<agora_current_mode, agora_seq_id, n_sent, last_msg>>
    /\ br_fx' = {}

\* C4 as stated: a POST /control request whose handling ends while the session
\* is not (connected && stream_ready) is answered 503 and leaves CommandState
\* unchanged.
C4_UnavailableIs503 ==
    [][(AnsweredBeforeControl /\ ~(agora_connected /\ agora_stream_ready))
          => (br_resp' = 503 /\ CommandStateUnchanged)]_vars

\* C4 as amended: a POST /control request whose body parses and which finds
\* agora_connected or agora_stream_ready false is answered 503; one whose
\* body does not parse is answered 500; either way the request leaves
\* CommandState unchanged and transmits nothing.
C4_WellFormedUnavailableIs503 ==
    [][/\ (\/ br_pc = "check_connected" /\ br_pc' # br_pc /\ ~agora_connected
           \/ br_pc = "check_ready" /\ br_pc' # br_pc /\ ~agora_stream_ready)
            => (br_pc' = "respond" /\ br_resp' = 503 /\ CommandStateUnchanged)
       /\ (br_pc = "idle" /\ br_pc' = "respond")
            => (br_resp' = 500 /\ CommandStateUnchanged)
       /\ (br_pc # "respond" /\ br_pc' = "respond" /\ br_resp' = 503)
            => (br_fx = {} /\ ~(agora_connected /\ agora_stream_ready))]_vars

\* direction "up" was answered 503 while the session was disconnected
C4_Witness ==
    /\ br_pc = "respond"
    /\ br_resp = 503
    /\ br_direction = "forward"
    /\ ~agora_connected
    /\ link = "down"

\* C7: no message is handed to the transport in a state where connected is
\* false or stream_ready is false.
C7_SendOnlyWhenReady ==
    [][Transmitted => (agora_connected /\ agora_stream_ready)]_vars

\* Positions of the calls start() has made to the device-management API
OpenAt(i) == i \in 1..Len(calls) /\ calls[i] = "openStream"

\* C11: the stream-stop call comes after the first stream-open call and the
\* connect attempt and before the second stream-open call: between two
\* stream-open calls there is a stop call, start() makes its calls in the
\* order open, stop, open, and the stop is made with connect_agora over.
C11_StopBetweenOpens ==
    /\ \A i, j \in 1..Len(calls) :
          (i < j /\ OpenAt(i) /\ OpenAt(j))
             => \E k \in (i + 1)..(j - 1) : calls[k] = "stop"
    /\ main_pc \in {"main_check", "serve"} /\ Len(calls) >= 3
          => SubSeq(calls, 1, 3) = <<"openStream", "stop", "openStream">>
    /\ main_pc = "open2" => (calls = <<"openStream", "stop">> /\ agora_ok # "unset")

\* start() went through its three steps with the backend connected
C11_Witness ==
    /\ main_pc = "serve"
    /\ agora_ok = "True"
    /\ calls = <<"openStream", "stop", "openStream">>

\* The calls of the teardown in progress: the calls from the first join or
\* exit-control call on
TeardownCalls ==
    LET starts == {i \in 1..Len(calls) : calls[i] \in {"join", "exitMode"}}
    IN  IF starts = {} THEN <<>>
        ELSE LET first == CHOOSE i \in starts : \A k \in starts : i <= k
             IN  SubSeq(calls, first, Len(calls))

\* Place of a call in the teardown order of the specification
TeardownRank(c) ==
    CASE c = "join"            -> 1
      [] c = "exitMode"        -> 2
      [] c = "disconnect"      -> 3
      [] c = "release"         -> 4
      [] c = "service_release" -> 5
      [] c = "shutdown"        -> 6
      [] c = "stop"            -> 7
      [] OTHER                 -> 0

\* C14: teardown stops the broadcaster loop and joins it (a join that is over
\* after its timeout whether or not the thread ended), then requests exit of
\* remote-control mode, then disconnects and releases the transport, then
\* stops the control server, then requests the stream stop.
C14_TeardownOrder ==
    /\ \A i, j \in 1..Len(TeardownCalls) :
          i < j => /\ TeardownRank(TeardownCalls[i]) > 0
                   /\ TeardownRank(TeardownCalls[i]) < TeardownRank(TeardownCalls[j])
    /\ TeardownCalls # <<>> => ~agora_running
    /\ (InTeardown /\ agora_send_thread /\ TeardownCalls # <<>>)
          => TeardownCalls[1] = "join"

\* A teardown after Ctrl+C that went through every step with the broadcaster
\* still running when the join timed out
C14_Witness ==
    /\ main_pc = "exit"
    /\ bc_pc \notin {"done", "died"}
    /\ TeardownCalls = <<"join", "exitMode", "disconnect", "release",
                         "service_release", "shutdown", "stop">>

\* C15: every teardown attempts each of its steps, whatever happened to the
\* earlier ones: a teardown that is over has requested exit of remote-control
\* mode, has disconnected and released a connection it held, has shut the
\* control server down if one was started, and has requested the stream stop.
C15_TeardownBestEffort ==
    main_pc = "exit" =>
       /\ \E i \in 1..Len(TeardownCalls) : TeardownCalls[i] = "exitMode"
       /\ agora_connection = "None"
       /\ http_server # "serving"
       /\ TeardownCalls[Len(TeardownCalls)] = "stop"

\* No send is between its send_stream_message call and its store of the counter
NoSendInProgress ==
    /\ bc_pc \notin {"inc_load", "inc_store"}
    /\ br_pc \notin {"inc_load", "inc_store"}

\* C16: the sequence counter goes up by exactly 1 for each message handed to
\* the transport and changes at no other time: a step leaves it alone or adds
\* 1 to it, and whenever no send is in progress it equals the number of
\* messages handed over since the session began.
C16_CounterCountsMessages ==
    [][/\ agora_seq_id' \in {agora_seq_id, agora_seq_id + 1}
       /\ NoSendInProgress' => agora_seq_id' = n_sent']_vars

\* Values the latch may hold
LatchValues == {None, 16, 17, 18, 19}

\* send_agora_control, called with a direction that is neither a key of
\* AGORA_MODES nor 'stop', returns in this step
UnknownDirectionReturns ==
    /\ br_pc = "send_agora_control"
    /\ br_direction # "stop"
    /\ AGORA_MODES(br_direction) = None
    /\ br_pc' = "respond"

\* C20: the latch is None or one of the four mode codes; send_agora_control(d)
\* for a movement d sets it to d's code whatever it held and it holds that
\* code when the call returns (teardown, which clears the latch, aside); a
\* call with an unknown direction leaves it as it was.
C20_OneDirectionLatched ==
    [][/\ agora_current_mode' \in LatchValues
       /\ (br_pc = "send_agora_control" /\ br_pc' = "send_guard")
             => agora_current_mode' = AGORA_MODES(br_direction)
       /\ (SetDirectionReturns /\ ~InTeardown')
             => agora_current_mode' = AGORA_MODES(br_direction)
       /\ UnknownDirectionReturns => agora_current_mode' = agora_current_mode]_vars

\* A call for u_turn that found a direction latched has returned with 16 latched
C20_Witness ==
    /\ br_pc = "respond"
    /\ br_direction = "u_turn"
    /\ br_fx = {"latch", "send", "seq"}
    /\ agora_current_mode = 16
    /\ last_msg.mode = 16

\* do_POST has answered a request for /enter-control
EnterControlAnswered ==
    /\ br_pc = "respond"
    /\ br_calls # <<>>
    /\ br_calls[1].endpoint = "enterModeB"

\* A request for /enter-control is being handled or has just ended
EnterControlHandled ==
    \/ br_pc = "enter"
    \/ EnterControlAnswered
    \/ br_pc = "crashed" /\ br_calls[1].endpoint = "enterModeB"

\* The endpoints the request in progress has called, in order
EndpointsCalled == [i \in 1..Len(br_calls) |-> br_calls[i].endpoint]

\* C12: enter-control calls enterModeB, enterMode, rc/enter in that order,
\* stops at the first result whose code is 0 and returns that result: no call
\* follows a success, and with two failures and a success the three calls are
\* made in the declared order and the third result is the payload.
C12_EnterStopsAtFirstSuccess ==
    /\ EnterControlHandled
          => /\ Len(br_calls) <= 3
             /\ EndpointsCalled = SubSeq(<<"enterModeB", "enterMode", "rc_enter">>,
                                         1, Len(br_calls))
             /\ \A i \in 1..(Len(br_calls) - 1) : br_calls[i].result # "ok"
    /\ (EnterControlAnswered /\ br_calls[Len(br_calls)].result = "ok")
          => /\ br_resp = 200
             /\ br_payload = [endpoint |-> br_calls[Len(br_calls)].endpoint, result |-> "ok"]

\* enterModeB and enterMode failed, rc/enter succeeded and its result was returned
C12_Witness ==
    /\ EnterControlAnswered
    /\ Len(br_calls) = 3
    /\ br_calls[1].result = "fail"
    /\ br_calls[2].result = "exc"
    /\ br_payload = [endpoint |-> "rc_enter", result |-> "ok"]

\* C13: when all of the candidates fail (a non-zero code or an exception
\* caught by api_post), enter-control has called each of the three endpoints
\* exactly once, in one pass, and returns the one aggregated failure.
C13_EnterAllFailOnePass ==
    (EnterControlAnswered /\ \A i \in 1..Len(br_calls) : br_calls[i].result \in {"fail", "exc"})
       => /\ EndpointsCalled = <<"enterModeB", "enterMode", "rc_enter">>
          /\ br_payload = [error |-> "Could not enter control mode"]
          /\ br_resp = 200

\* The three candidates failed, one of them by an exception, and the
\* aggregated failure was returned
C13_Witness ==
    /\ EnterControlAnswered
    /\ Len(br_calls) = 3
    /\ br_calls[1].result = "fail"
    /\ br_calls[2].result = "exc"
    /\ br_calls[3].result = "fail"
    /\ br_payload = could_not_enter

\* C17: no exception leaves do_POST: every POST to /control, /enter-control,
\* /exit-control or /go-home ends with one JSON response, also after a
\* malformed body or a device-management call that failed, raised or returned
\* a payload of an unexpected shape.
C17_NoExceptionEscapes ==
    /\ br_pc # "crashed"
    /\ br_pc = "respond" => br_resp \in {200, 500, 503}

\* The parts of the grant that have this key
PartsWith(ps, key) == {i \in 1..Len(ps) : ps[i].key = key}

\* The last part of the grant that has this key
LastWith(ps, key) == ps[CHOOSE i \in PartsWith(ps, key) : \A k \in PartsWith(ps, key) : k <= i]

\* The grant gives no uid, or the uid it gives is not a decimal number
UidAbsentOrMalformed(ps) == PartsWith(ps, k_uid) = {} \/ ~LastWith(ps, k_uid).numeric

\* C18: the resolver never raises: whatever the grant, it returns a record,
\* with uid = 0 when the uid is absent or malformed and with empty strings
\* for an absent app_id, channel or token.
C18_ResolverNeverRaises ==
    creds.parsed =>
       /\ ~creds.raised
       /\ UidAbsentOrMalformed(data.parts) => creds.uid = 0
       /\ PartsWith(data.parts, k_app_id) = {} => creds.app_id = <<>>
       /\ PartsWith(data.parts, k_channel) = {} => creds.channel = <<>>
       /\ PartsWith(data.parts, k_token) = {} => creds.token = <<>>

\* "app_id=X&channel=Y&token=A%3DB&uid=42"
ExampleGrant ==
    <<"a", "p", "p", "_", "i", "d", "=", "X", "&", "c", "h", "a",
      "n", "n", "e", "l", "=", "Y", "&", "t", "o", "k", "e", "n",
      "=", "A", "%", "3", "D", "B", "&", "u", "i", "d", "=", "4",
      "2">>

\* The call has returned for a grant that gives a decimal uid, with a
\* publish_uid in the response
CompleteGrant ==
    /\ creds.parsed
    /\ data.has_publish_uid
    /\ PartsWith(data.parts, k_uid) # {}
    /\ LastWith(data.parts, k_uid).numeric

\* The value the grant writes for a key, escapes and all
AsWritten(ps, key) == IF PartsWith(ps, key) = {} THEN <<>> ELSE LastWith(ps, key).raw

\* The value the grant gives for a key, its escapes decoded
Given(ps, key) == IF PartsWith(ps, key) = {} THEN <<>> ELSE LastWith(ps, key).meaning

\* C19 as stated: app_id and channel are returned as the grant writes them,
\* the token percent-decoded, uid as the integer the uid field gives and
\* publish_uid as the response gives it.
C19_FieldsAsGiven ==
    CompleteGrant =>
       /\ ~creds.raised
       /\ creds.app_id = AsWritten(data.parts, k_app_id)
       /\ creds.channel = AsWritten(data.parts, k_channel)
       /\ creds.token = Given(data.parts, k_token)
       /\ creds.uid = LastWith(data.parts, k_uid).number
       /\ creds.publish_uid = data.publish_uid

\* C19 as amended: app_id, channel and token are each returned
\* percent-decoded (the last occurrence of a key counts, an absent key gives
\* the empty string), uid is the integer of a decimal uid field and 0 without
\* one, publish_uid is the response's and 50000 without one; the example of
\* the specification yields the record it names.
C19_FieldsDecoded ==
    (creds.parsed /\ (PartsWith(data.parts, k_uid) = {} \/ LastWith(data.parts, k_uid).numeric))
       => /\ ~creds.raised
          /\ creds.app_id = Given(data.parts, k_app_id)
          /\ creds.channel = Given(data.parts, k_channel)
          /\ creds.token = Given(data.parts, k_token)
          /\ creds.uid = IF PartsWith(data.parts, k_uid) = {} THEN 0
                         ELSE LastWith(data.parts, k_uid).number
          /\ creds.publish_uid = IF data.has_publish_uid THEN data.publish_uid ELSE 50000
          /\ (data.url = ExampleGrant /\ data.has_publish_uid /\ data.publish_uid = 50000)
                => creds = [parsed |-> TRUE, raised |-> FALSE,
                            app_id |-> <<"X">>, channel |-> <<"Y">>,
                            token |-> <<"A", "=", "B">>, uid |-> 42,
                            publish_uid |-> 50000]

\* The example of the specification was resolved
C19_Witness ==
    /\ data.url = ExampleGrant
    /\ data.has_publish_uid
    /\ data.publish_uid = 50000
    /\ creds.parsed
    /\ ~creds.raised
    /\ creds.token = <<"A", "=", "B">>
    /\ creds.uid = 42


\* C21: the peer gate is bounded and not fatal: connect_agora polls
\* peer_joined at most PeerPolls times, then goes on to start the broadcaster
\* whether or not the peer has joined, and returns True (only Ctrl+C takes
\* the main thread elsewhere).
C21_PeerGateNonFatal ==
    [][/\ main_pc = "peer" => poll <= PeerPolls
       /\ (main_pc = "peer" /\ main_pc' = "peer" /\ poll' # poll)
             => (poll < PeerPolls /\ poll' = poll + 1)
       /\ (main_pc = "peer" /\ main_pc' \notin {"peer", teardown_order[1]})
             => main_pc' = "thread_start"
       /\ (main_pc = "thread_start" /\ main_pc' \notin {"thread_start", teardown_order[1]})
             => /\ agora_ok' = "True"
                /\ agora_running'
                /\ agora_send_thread'
                /\ bc_pc' = "loop"]_vars

\* connect_agora polled as often as it may, the peer did not join, and the
\* broadcaster was started with connect_agora returning True
C21_Witness ==
    /\ main_pc = "stop1"
    /\ poll = PeerPolls
    /\ ~agora_robot_joined
    /\ agora_ok = "True"
    /\ agora_running
    /\ agora_send_thread


\* Number of calls of this name the main thread has made
CountOf(c) == Cardinality({i \in 1..Len(calls) : calls[i] = c})

\* disconnect_agora is running with nothing to release
NothingHeld == agora_connection = "None" /\ agora_service = "None"

\* C22: disconnect_agora is idempotent and safe from Idle: with no connection
\* and no service held it makes no SDK call and cannot raise; over a
\* teardown and a second call the connection is disconnected and released
\* and the service released at most once; the second call leaves connected,
\* stream_ready and running false, the latch None and no connection object,
\* as the first did.
C22_DisconnectIdempotent ==
    /\ [](/\ CountOf("disconnect") <= 1
          /\ CountOf("release") <= 1
          /\ CountOf("service_release") <= 1)
    /\ [][/\ (main_pc \in {"da_disconnect", "da_service"} /\ NothingHeld /\ main_pc' # main_pc)
                => (main_pc' # "exit" /\ calls' = calls)
          /\ (called_again /\ main_pc' # main_pc)
                => /\ NothingHeld'
                   /\ ~agora_connected'
                   /\ ~agora_running'
                   /\ agora_current_mode' = None
                   /\ calls' \in {calls, Append(calls, "join"), Append(calls, "exitMode")}
                   /\ main_pc' = "exit" => (main_pc = "da_ready" /\ ~agora_stream_ready')]_vars

\* A second call has returned after a teardown that disconnected and
\* released the connection and released the service
C22_Witness ==
    /\ called_again
    /\ main_pc = "exit"
    /\ CountOf("release") = 1
    /\ CountOf("service_release") = 1
    /\ NothingHeld
    /\ ~agora_connected
    /\ ~agora_stream_ready


\* Program points of the handler inside /enter-control, /exit-control, /go-home
ApiPcs == {path_pc(path) : path \in ApiPaths}

\* The handler takes a step of an administrative request
AdminStep ==
    \/ br_pc = "idle" /\ br_pc' \in ApiPcs
    \/ br_pc \in ApiPcs /\ (br_pc' # br_pc \/ br_calls' # br_calls)

\* C23: the administrative requests leave CommandState and ConnectionFlags
\* unchanged and transmit nothing; the latch is written by a /control
\* request (and by teardown) only, so whatever administrative requests come
\* between, the latch is the one the last /control request set.
C23_AdminLeavesCommandState ==
    [][/\ AdminStep
             => UNCHANGED <<agora_current_mode, agora_seq_id, agora_connected,
                            agora_stream_ready, agora_robot_joined, n_sent, last_msg>>
       /\ agora_current_mode' # agora_current_mode
             => (br_pc = "send_agora_control" \/ main_pc = "da_mode")
       /\ agora_seq_id' # agora_seq_id => br_pc = "inc_store"]_vars

\* /go-home was answered with a direction latched by an earlier /control
\* request, which also sent a message
C23_Witness ==
    /\ br_pc = "respond"
    /\ br_payload = passed_on("goHomes", "ok")
    /\ agora_current_mode = AGORA_MODES("forward")
    /\ agora_seq_id = 1
    /\ n_sent = 1


\* The running flag is set, the session is connected && stream_ready and the
\* latch holds this mode code
LatchHeld(mode) ==
    /\ agora_running
    /\ agora_connected
    /\ agora_stream_ready
    /\ agora_current_mode = mode

\* The broadcaster has just handed a message with this mode code to the transport
LoopSent(mode) ==
    /\ bc_pc = "inc_load"
    /\ last_msg.via = "loop"
    /\ last_msg.mode = mode

\* A step in which the broadcaster hands a message to the transport
LoopTransmits == Transmitted /\ last_msg'.via = "loop" /\ bc_pc = "transmit"

\* C24: level-triggered re-transmission.  While the running flag is set, the
\* session stays connected && stream_ready and the latch holds d, the
\* broadcaster hands a message with d's code to the transport again and
\* again (until the model's MaxSent messages are out).  A tick hands over at
\* most one message, which carries the latch value the tick read, and a tick
\* that read None as latch, or found the session not connected or not
\* stream_ready, hands over nothing.
C24_LevelTriggered ==
    /\ \A mode \in LatchValues \ {None} :
          LatchHeld(mode) ~> (~LatchHeld(mode) \/ LoopSent(mode) \/ n_sent = MaxSent)
    /\ [][/\ LoopTransmits
                => /\ n_sent' = n_sent + 1
                   /\ last_msg'.mode = bc_mode
                   /\ bc_mode # None
                   /\ bc_pc' = "inc_load"
          /\ (bc_pc = "read_mode" /\ bc_pc' # bc_pc) => bc_mode' = agora_current_mode
          /\ (bc_pc = "check_connected" /\ ~agora_connected) => bc_pc' \in {bc_pc, "loop"}
          /\ (bc_pc = "check_ready" /\ (~agora_stream_ready \/ bc_mode = None))
                => bc_pc' \in {bc_pc, "loop"}
          /\ (bc_pc \in {"inc_load", "inc_store"} /\ Transmitted) => last_msg'.via # "loop"]_vars

\* The broadcaster has transmitted the direction again that
\* send_agora_control latched and sent
C24_Witness ==
    /\ LatchHeld(AGORA_MODES("forward"))
    /\ LoopSent(AGORA_MODES("forward"))
    /\ n_sent = 2
    /\ agora_seq_id = 1


\* send_agora_control('stop') runs in this step
StopCall ==
    /\ br_pc = "send_agora_control"
    /\ br_direction = "stop"
    /\ br_pc' # br_pc

\* send_agora_control('stop') has returned and the response is not yet written
StopReturned ==
    /\ br_pc = "respond"
    /\ br_direction = "stop"
    /\ br_resp = 200

\* C25: send_agora_control('stop') only clears the latch: the call returns in
\* the step that sets the latch to None, hands no message to the transport
\* and leaves the sequence counter and the connection flags as they were.
C25_StopOnlyClearsLatch ==
    /\ [](StopReturned => br_fx = {"latch"})
    /\ [][StopCall
             => /\ agora_current_mode' = None
                /\ br_pc' = "respond"
                /\ UNCHANGED <<n_sent, last_msg, agora_seq_id, agora_connected,
                               agora_stream_ready, agora_robot_joined>>]_vars

\* 'stop' has returned after a direction was latched and sent: the latch is
\* None and the last message handed over is still the one of the direction
C25_Witness ==
    /\ StopReturned
    /\ br_fx = {"latch"}
    /\ agora_current_mode = None
    /\ n_sent = 1
    /\ last_msg.mode = AGORA_MODES("forward")
    /\ agora_seq_id = 1


\* The last event the observer handled reported a transport failure
AfterTransportFailure == cb_pc = "idle" /\ link \in {"down", "lost", "failed"}

\* C26: after a transport failure (a disconnected, connection-lost or
\* connection-failure event) and after an explicit teardown the session is
\* Disconnected: connected and stream_ready are both false.
C26_FailureDisconnects ==
    (AfterTransportFailure \/ teardown_returned)
       => (~agora_connected /\ ~agora_stream_ready)


C28_DegradedButUsable ==
    [][/\ (cb_pc = "idle" /\ cb_pc' = "create_data_stream") => agora_connected'
       /\ (cb_pc = "create_data_stream" /\ cb_pc' = "idle")
             => /\ agora_stream_ready'
                /\ UNCHANGED <<agora_connected, agora_ok, main_pc, link>>
                /\ ~InTeardown => agora_connected']_vars

\* The connected event was handled and connect_agora has returned True
C28_Witness ==
    /\ cb_pc = "idle"
    /\ link = "up"
    /\ agora_connected
    /\ agora_stream_ready
    /\ agora_ok = "True"
    /\ main_pc = "stop1"

\* The observer handles on_reconnected in this step
Reconnected == link \in Interrupted /\ link' = "up" /\ cb_pc' = "idle"

\* C29: no automatic reconnection: the reconnecting, connection-lost and
\* connection-failure events change no field of the controller, on_reconnected
\* changes none but connected, which it sets; none of the four calls
\* connect() (only connect_agora does, once, on the main thread), calls the
\* API or hands a message to the transport.
C29_NoAutomaticReconnection ==
    [][/\ (link' # link /\ link' \in {"reconnecting", "lost", "failed"})
             => UNCHANGED <<ctrl, n_sent, last_msg, mainv>>
       /\ Reconnected
             => /\ agora_connected'
                /\ UNCHANGED <<agora_service, agora_connection, agora_stream_ready,
                               agora_robot_joined, agora_seq_id, agora_send_thread,
                               agora_running, agora_current_mode, http_server>>
                /\ UNCHANGED <<n_sent, last_msg, mainv>>
       /\ (link' # link /\ link' = "joining")
             => (link = "new" /\ main_pc = "rtc_connect")]_vars

\* on_reconnected was handled after a disconnection with a direction latched:
\* connected is set again, stream_ready is not, the latch and the counter are
\* as the /control request left them
C29_Witness ==
    /\ link = "up"
    /\ cb_pc = "idle"
    /\ agora_connected
    /\ ~agora_stream_ready
    /\ agora_current_mode = AGORA_MODES("forward")
    /\ agora_seq_id = 1
    /\ main_pc = "serve"


\* The three endpoints of enter_remote_control_mode
EnterEndpoints == {enter_endpoints[i] : i \in 1..Len(enter_endpoints)}

\* C30: during startup (and in teardown) the main thread calls no
\* enter-control endpoint: enterModeB, enterMode and rc/enter are called by
\* the handler of a /enter-control request only.
C30_NoEnterDuringStartup ==
    /\ \A i \in 1..Len(calls) : calls[i] \notin EnterEndpoints
    /\ \A i \in 1..Len(br_calls) :
          br_calls[i].endpoint \in EnterEndpoints
             => (br_pc \in {"enter", "respond", "crashed"} /\ EnterControlHandled)

\* start() has connected and opened the stream again without a call to an
\* enter-control endpoint, and a /enter-control request is then served
C30_Witness ==
    /\ main_pc = "serve"
    /\ agora_ok = "True"
    /\ agora_running
    /\ calls = <<"openStream", "stop", "openStream">>
    /\ br_pc = "respond"
    /\ br_calls = <<call("enterModeB", "ok")>>


\* --------------------------------------------------------------- C31
\* A step in which connect_agora creates the transport connection
ConnectionCreated == agora_connection = "None" /\ agora_connection' = "obj"

\* A step in which the transport starts to join the channel
JoinStarted == link' = "joining" /\ link # "joining"

\* A step in which the broadcaster thread is started
BroadcasterStarted == bc_pc = "unstarted" /\ bc_pc' # "unstarted"

\* A step in which connect_agora is called on the connected controller
CalledWhileConnected == Len(calls') > Len(calls) /\ calls'[Len(calls')] = "connect_agora"

WireModes == {16, 17, 18, 19}

\* The table of the claim: UI token, semantic mode, wire code
TokenTable ==
    /\ dir_map("up") = "forward"         /\ AGORA_MODES("forward") = 17
    /\ dir_map("down") = "u_turn"        /\ AGORA_MODES("u_turn") = 16
    /\ dir_map("left") = "rotate_left"   /\ AGORA_MODES("rotate_left") = 18
    /\ dir_map("right") = "rotate_right" /\ AGORA_MODES("rotate_right") = 19
    /\ dir_map("none") = "stop"          /\ AGORA_MODES("stop") = None

\* C32: the token table is as the claim gives it, and every message handed
\* to the transport, by a request or by the broadcaster, carries one of the
\* codes 16..19, version 2, x = 1 and y = 0; a request for "stop" hands
\* over no message, a request for a movement hands over the code of its
\* mode, and the broadcaster the code that was latched.
C32_TokenToWire ==
    /\ [](/\ TokenTable
          /\ n_sent > 0 => /\ last_msg.mode \in WireModes
                           /\ last_msg.version = 2
                           /\ last_msg.x = 1
                           /\ last_msg.y = 0
          /\ agora_current_mode \in WireModes \cup {None}
          /\ br_direction \in {"forward", "u_turn", "rotate_left", "rotate_right", "stop"})
    /\ [][Transmitted =>
             \/ /\ br_pc = "transmit"
                /\ br_direction # "stop"
                /\ last_msg'.via = "control"
                /\ last_msg'.mode = AGORA_MODES(br_direction)
             \/ /\ bc_pc = "transmit"
                /\ last_msg'.via = "loop"
                /\ last_msg'.mode = bc_mode]_vars

\* A request with token right has handed code 19 to the transport and the
\* broadcaster has repeated it
C32_Witness ==
    /\ n_sent >= 2
    /\ last_msg.mode = 19
    /\ last_msg.via = "loop"
    /\ agora_current_mode = 19


\* --------------------------------------------------------------- C33
\* C33: no message is handed to the transport once teardown has released
\* the connection: every step that hands a message over finds a connection
\* object in the field and that object not released.
C33_NoSendAfterRelease ==
    [][Transmitted => agora_connection # "None" /\ link # "released"]_vars


\* --------------------------------------------------------------- C34
\* A step in which a reconnected event follows a disconnected event
ReconnectedAfterDisconnected == link = "down" /\ link' = "up" /\ cb_pc' = "idle"

\* C34: agora_stream_ready goes from false to true only in the second half
\* of the on_connected handler; the reconnected event that follows a
\* disconnected event sets connected, leaves stream_ready false and leaves
\* the latch as it was; a /control handler that tests stream_ready while it
\* is false answers 503 without touching the controller or the transport,
\* and a broadcaster tick that tests it while it is false goes back to
\* sleep without handing a message over.
C34_ReconnectLeavesStreamDown ==
    [][/\ (~agora_stream_ready /\ agora_stream_ready')
             => cb_pc = "create_data_stream" /\ cb_pc' = "idle"
       /\ ReconnectedAfterDisconnected
             => /\ agora_connected'
                /\ ~agora_stream_ready'
                /\ agora_current_mode' = agora_current_mode
       /\ (~agora_stream_ready /\ br_pc = "check_ready" /\ br_pc' # br_pc)
             => /\ br_pc' = "respond"
                /\ br_resp' = 503
                /\ UNCHANGED <<ctrl, env>>
       /\ (~agora_stream_ready /\ bc_pc \in {"check_ready", "send_guard"} /\ bc_pc' # bc_pc)
             => /\ bc_pc' = "loop"
                /\ UNCHANGED <<ctrl, env>>
      ]_vars

\* After disconnected and reconnected events, with forward latched, the
\* session is connected without a ready stream while a /control handler and
\* a broadcaster tick that read the latch are about to test stream_ready
C34_Witness ==
    /\ link = "up"
    /\ cb_pc = "idle"
    /\ agora_connected
    /\ ~agora_stream_ready
    /\ agora_current_mode = 17
    /\ br_pc = "check_ready"
    /\ bc_pc = "check_ready"
    /\ bc_mode = 17
    /\ main_pc = "serve"


\* --------------------------------------------------------------- C35
\* C35: stream_ready implies connected in every reachable state, the states
\* between the assignments of the handlers and of teardown included.
C35_StreamReadyImpliesConnected == agora_stream_ready => agora_connected


\* --------------------------------------------------------------- C36
\* disconnect_agora has returned to main()'s finally block
DisconnectReturned ==
    \/ main_pc \in {"stop_control_server", "stop_live_stream"}
    \/ teardown_returned

\* C36: once disconnect_agora has returned, connected, stream_ready and
\* running are false and the latch is None, whatever /control requests were
\* handled while it ran.
C36_TeardownLeavesNothingSet ==
    DisconnectReturned
       => /\ ~agora_connected
          /\ ~agora_stream_ready
          /\ ~agora_running
          /\ agora_current_mode = None


\* --------------------------------------------------------------- C37
\* The tokens and mode names dir_map holds
KnownTokens ==
    {"up", "down", "left", "right", "none",
     "forward", "rotate_left", "rotate_right", "u_turn", "stop"}

\* C37: a missing direction and a token dir_map does not hold are mapped to
\* 'stop', and only a token it holds is mapped to a movement; the handler
\* of such a request carries 'stop' and no other direction, and when it has
\* found the session connected && stream_ready its send_agora_control
\* clears the latch, hands no message to the transport, leaves the sequence
\* counter alone and is answered 200 with direction 'stop'; the latch gets
\* a movement code only from a request for that movement.
C37_UnknownTokenIsStop ==
    /\ [](/\ direction_of("bogus") = "stop"
          /\ direction_of("<missing>") = "stop"
          /\ \A body \in Bodies \cup UiTokens \cup StrayBodies :
                direction_of(body) # "stop" => body \in KnownTokens
          /\ br_direction \in {"forward", "stop"})
    /\ [][/\ (br_pc = "send_agora_control" /\ br_direction # "forward" /\ br_pc' # br_pc)
                => /\ agora_current_mode' = None
                   /\ ~Transmitted
                   /\ agora_seq_id' = agora_seq_id
                   /\ br_pc' = "respond"
                   /\ br_resp' = 200
                   /\ br_direction' = "stop"
          /\ (agora_current_mode' # agora_current_mode /\ agora_current_mode' # None)
                => /\ br_pc = "send_agora_control"
                   /\ br_direction = "forward"
                   /\ agora_current_mode' = 17
         ]_vars

\* With forward latched and sent, a request with an unknown or missing token
\* found the session connected && stream_ready, cleared the latch and is
\* answered 200; nothing more was sent
C37_Witness ==
    /\ main_pc = "serve"
    /\ agora_connected
    /\ agora_stream_ready
    /\ br_pc = "respond"
    /\ br_resp = 200
    /\ br_direction = "stop"
    /\ br_fx = {"latch"}
    /\ agora_current_mode = None
    /\ n_sent = 1
    /\ last_msg.mode = 17
    /\ agora_seq_id = 1

====
